---- MODULE Spec2Model ----
(***************************************************************************)
(* RidgeRadar: phase gate, shadow-trading tasks, exchange gateway and rate *)
(* limiter, modelled from app/tasks, app/services and app/config.          *)
(*                                                                         *)
(* Units.  Instants are minutes.  Prices and matched volumes are           *)
(* hundredths (3.00 = 300).  Stakes and P&L are in units of 0.0001         *)
(* (10.00 = 100000).  A nullable column is a                               *)
(* set: {} is NULL and {v} is the value v.  A Decimal quotient is kept as  *)
(* the pair <<numerator, denominator>>.                                    *)
(***************************************************************************)
EXTENDS Integers, Sequences, FiniteSets, TLC

VARIABLES
    now,            \* wall clock (datetime.now), minutes
    config,         \* SHADOW_CONFIG (app/config/shadow_trading.py)
    closing,        \* market_closing_data, as the aggregates the phase query reads
    runner_status,  \* runners.status column, per runner
    decisions,      \* shadow_decisions, committed rows; the index is the primary key
    runs,           \* task runs in flight, one per worker slot
    bucket,         \* rate limiter hash in the shared store, for one endpoint
    waiter,         \* a caller inside wait_if_needed
    let_through,    \* observer: requests let through since the last sleep ended
    ideal_granted,  \* observer: allowance burst + rate*t charged by the tokens the bucket granted
    auth,           \* BetfairAuth._token of a client process (0 is None)
    cache,          \* the session token cached in the shared store (0 is none)
    exchange,       \* how many session tokens the exchange has issued: 1..exchange
    call,           \* the client's BetfairClient._request call
    clock,          \* the wall clock as datetime.now() reads it, in microseconds
    market_state,   \* markets.status / in_play of each market
    snapshots,      \* market_snapshots rows committed
    captures,       \* capture_snapshots runs in flight, one per worker slot
    job_runs,       \* job_runs rows committed
    execs,          \* task executions in flight, one per worker slot
    entities,       \* discovery stages whose upserts are committed
    discovery,      \* the discover_markets run
    closing_row,    \* the MarketClosingData row of one market (Null: none)
    pre_start,      \* that market before kickoff: minutes left, latest snapshot, latest score
    closest_capture,\* observer: the pre-start capture run made closest to kickoff
    metrics,        \* the MarketMetrics handed to the scorer
    scored,         \* the ExploitabilityResult it returned (Null: not scored yet)
    scores,         \* exploitability_scores rows committed
    upstream,       \* the competitions and events the exchange lists
    catalogue,      \* competitions and events rows committed
    discovered,     \* the discover_all runs completed: how many, and when the last read the clock
    engine_in,      \* what one evaluate_hypotheses run reads: a momentum-query row for a runner, a hypothesis
    engine,         \* that run: its position, the signal extracted, the match returned
    book_status,    \* runner statuses in the exchange's market book
    lock,           \* BetfairAuth._lock: the coroutine holding it (0 is free)
    coros,          \* the coroutines of one process inside BetfairAuth
    market_rows,    \* markets.status and markets.in_play as committed
    xbook,          \* status and in-play of each market on the exchange
    cap,            \* the capture_snapshots task run, with its JobRun
    snap_rows,      \* market_snapshots rows committed, as <<run, market>>
    score_db,       \* what the scoring task reads and writes: competitions'
                    \* enabled, today's profile rows, the scores committed
    score_run,      \* the score_markets task run
    unsettled,      \* the ClosingData rows in the results window, settled or not
    rbook,          \* the exchange's book of each of their markets
    rc,             \* the capture_results run
    xcat,           \* the market and its runner as the exchange lists them
    mk_db,         \* the markets and runners rows discovery has committed
    beat            \* celery beat: minutes since it started, when each entry was last sent, when the hypothesis engine last ran

sh_vars == <<now, config, closing, runner_status, decisions, runs>>
rl_vars == <<bucket, waiter, let_through, ideal_granted>>
gw_vars == <<auth, cache, exchange, call>>
sn_vars == <<clock, market_state, snapshots, captures>>
jb_vars == <<job_runs, execs>>
dc_vars == <<entities, discovery>>
cl_vars == <<closing_row, pre_start, closest_capture>>
sc_vars == <<metrics, scored, scores>>
cat_vars == <<upstream, catalogue, discovered>>
he_vars == <<engine_in, engine>>
bt_vars == <<beat>>
bk_vars == <<book_status>>
au_vars == <<lock, coros>>
cp_vars == <<market_rows, xbook, cap, snap_rows>>
sr_vars == <<score_db, score_run>>
mk_vars == <<xcat, mk_db>>
rc_vars == <<unsettled, rbook, rc>>
late_vars == <<cp_vars, sr_vars, mk_vars, rc_vars>>
ext_vars == <<cat_vars, he_vars, bt_vars, bk_vars, au_vars, late_vars>>
trade_vars == <<sh_vars, rl_vars, gw_vars>>
ing_vars == <<sn_vars, jb_vars, dc_vars, cl_vars, sc_vars, ext_vars>>
vars == <<trade_vars, ing_vars>>

Null == {}
Some(v) == {v}

(***************************************************************************)
(* Bounds of the model                                                     *)
(***************************************************************************)
MaxDecisions == 2
MaxNewClosingRows == 1
MaxTokens == 5

(***************************************************************************)
(* Program constants                                                       *)
(***************************************************************************)
min_closing_data == 500
min_results == 200
min_high_score_markets == 50
min_days_collecting == 2
MinutesPerDay == 1440
HighScoreCut == 30

PHASE1_COLLECTING == "PHASE1_COLLECTING"
PHASE2_SHADOW == "PHASE2_SHADOW"
PHASE3_LIVE == "PHASE3_LIVE"
TradingPhase == {PHASE1_COLLECTING, PHASE2_SHADOW, PHASE3_LIVE}

\* The instants the clock visits: decision time (0), kickoff (400) and two
\* instants after the settlement cut-off (521, 522).
Instants == {0, 400, 521, 522}

(***************************************************************************)
(* Phase gate                                                              *)
(***************************************************************************)
\* EXTRACT(DAY FROM (MAX(created_at) - MIN(created_at))) + 1, NULL on an empty
\* table and then "or 0".
days_collecting(c) ==
    IF c.total = 0 THEN 0
    ELSE ((c.last_created - c.first_created) \div MinutesPerDay) + 1

\* check_ready with a strict comparison on the closing-data count
check_ready_strict(closing_data, results, high_score, days) ==
    /\ closing_data > min_closing_data
    /\ results >= min_results
    /\ high_score >= min_high_score_markets
    /\ days >= min_days_collecting

check_ready(closing_data, results, high_score, days) ==
    /\ closing_data >= min_closing_data
    /\ results >= min_results
    /\ high_score >= min_high_score_markets
    /\ days >= min_days_collecting

\* a phase function that reports PHASE3_LIVE once the thresholds are met
get_current_phase_live(cfg, c) ==
    IF ~cfg.enabled THEN PHASE1_COLLECTING
    ELSE IF check_ready(c.total, c.with_results, c.high_score, days_collecting(c))
            /\ cfg.auto_activate_phase2
         THEN PHASE3_LIVE
         ELSE PHASE1_COLLECTING

get_current_phase_of(cfg, c) ==
    IF ~cfg.enabled THEN PHASE1_COLLECTING
    ELSE IF check_ready(c.total, c.with_results, c.high_score, days_collecting(c))
            /\ cfg.auto_activate_phase2
         THEN PHASE2_SHADOW
         ELSE PHASE1_COLLECTING

get_current_phase == get_current_phase_of(config, closing)

(***************************************************************************)
(* The stored world the shadow tasks read: a market of an enabled          *)
(* competition, OPEN and not in play, with its runners, latest snapshot    *)
(* ladder and latest exploitability score.                                 *)
(***************************************************************************)
Markets == {1}
Runners == {11, 12}
RunnerOrder == <<11, 12>>
market_of(r) == r \div 10
RunnersOf(m) == {r \in Runners : market_of(r) = m}
scheduled_start(m) == 400
latest_score(m) == 45
market_total_matched(m) == 800000
is_draw(r) == FALSE
\* best back / lay price of the latest snapshot's ladder
best_back(r) == IF r = 11 THEN 300 ELSE 450
best_lay(r) == IF r = 11 THEN 310 ELSE 460

ResultStatuses == {"WINNER", "LOSER", "REMOVED"}
Outcomes == {"PENDING", "WIN", "LOSE", "VOID"}

\* The enabled rows of trading_hypotheses (seeded from DEFAULT_HYPOTHESES).
Hyps == <<"steam_follower">>
hypothesis(h) ==
    [enabled |-> TRUE, decision_type |-> "BACK", selection_logic |-> "momentum",
     price_change_direction |-> "steaming"]

base_stake == 100000
commission_rate_pct == 2
SettleDelay == 120
ClosingLead == 5
SignalHorizon == 1440
EntryMinMinutes == 360
EntryMaxMinutes == 1440
EntryMinScore == 30
EntryMinMatched == 500000
EntryMaxSpreadPct == 5
MinSignalPrice == 110
MaxSignalPrice == 5000
TaskTimeLimit == 10

(***************************************************************************)
(* Shadow decisions                                                        *)
(***************************************************************************)
\* ShadowDecision(...) as built by the hypothesis engine and by
\* make_shadow_decisions: outcome PENDING, every later-filled column NULL.
ShadowDecision(m, r, hyp, side) ==
    [market_id |-> m, runner_id |-> r, hypothesis_name |-> hyp,
     decision_type |-> side,
     entry_back_price |-> best_back(r), entry_lay_price |-> best_lay(r),
     theoretical_stake |-> base_stake,
     outcome |-> "PENDING", settled_at |-> Null,
     gross_pnl |-> Null, commission |-> Null, spread_cost |-> Null,
     net_pnl |-> Null, max_loss |-> Null, return_on_risk |-> Null,
     closing_back_price |-> Null, closing_lay_price |-> Null,
     closing_mid_price |-> Null, clv_percent |-> Null]

\* matches_hypothesis, the decision side (the entry criteria are an input of
\* the run: see evaluate_step)
match_decision_type(h) ==
    IF hypothesis(h).price_change_direction = "steaming" THEN "BACK"
    ELSE IF hypothesis(h).price_change_direction = "drifting"
            /\ hypothesis(h).selection_logic = "contrarian" THEN "LAY"
    ELSE hypothesis(h).decision_type

create_shadow_decision(h, r) ==
    ShadowDecision(market_of(r), r, Some(h), match_decision_type(h))

\* SELECT 1 FROM shadow_decisions WHERE market_id = .. AND hypothesis_name = ..
\* A text() statement: it reads the committed table and does not flush the
\* rows the session has only added.
check_existing_decision(db, m, h) ==
    \E i \in DOMAIN db : db[i].market_id = m /\ db[i].hypothesis_name = Some(h)

\* Runners the momentum query can return a signal for.
SignalCandidates(t) ==
    {r \in Runners : /\ scheduled_start(market_of(r)) > t
                     /\ scheduled_start(market_of(r)) < t + SignalHorizon
                     /\ best_back(r) >= MinSignalPrice
                     /\ best_back(r) <= MaxSignalPrice}

\* for hypothesis in hypotheses: for signal in signals
HypothesisSignalPairs(t) ==
    LET n == Len(RunnerOrder)
        all == [k \in 1..(Len(Hyps) * n) |->
                   <<Hyps[((k - 1) \div n) + 1], RunnerOrder[((k - 1) % n) + 1]>>]
    IN SelectSeq(all, LAMBDA p : hypothesis(p[1]).enabled /\ p[2] \in SignalCandidates(t))

(***************************************************************************)
(* Settlement                                                              *)
(***************************************************************************)
settle_outcome_any_side(status, side) ==
    IF status = "WINNER" THEN "WIN"
    ELSE IF status = "LOSER" THEN "LOSE"
    ELSE IF status \in {"REMOVED", "REMOVED_VACANT"} THEN "VOID"
    ELSE "NONE"

settle_outcome(status, side) ==
    IF status = "WINNER" THEN (IF side = "BACK" THEN "WIN" ELSE "LOSE")
    ELSE IF status = "LOSER" THEN (IF side = "BACK" THEN "LOSE" ELSE "WIN")
    ELSE IF status \in {"REMOVED", "REMOVED_VACANT"} THEN "VOID"
    ELSE "NONE"

return_on_risk_of(net, max_loss) ==
    IF max_loss # 0 THEN <<net, max_loss>> ELSE <<0, 1>>

calculate_pnl(stake, entry_price, outcome, side) ==
    IF outcome = "VOID"
    THEN [gross_pnl |-> 0, commission |-> 0, spread_cost |-> 0, net_pnl |-> 0,
          max_loss |-> 0, return_on_risk |-> <<0, 1>>]
    ELSE LET max_loss == IF side = "BACK" THEN stake
                         ELSE (stake * (entry_price - 100)) \div 100
             gross == IF side = "BACK"
                      THEN (IF outcome = "WIN"
                            THEN (stake * (entry_price - 100)) \div 100 ELSE -stake)
                      ELSE (IF outcome = "WIN"
                            THEN stake ELSE -((stake * (entry_price - 100)) \div 100))
             comm == IF outcome = "WIN" THEN (gross * commission_rate_pct) \div 100 ELSE 0
         IN [gross_pnl |-> gross, commission |-> comm, spread_cost |-> 0,
             net_pnl |-> gross - comm, max_loss |-> max_loss,
             return_on_risk |-> return_on_risk_of(gross - comm, max_loss)]

\* settled_decision without the settled_at assignment
settled_decision_unstamped(d, outcome, t, pnl) ==
    [d EXCEPT !.outcome = outcome,
              !.gross_pnl = Some(pnl.gross_pnl), !.commission = Some(pnl.commission),
              !.spread_cost = Some(pnl.spread_cost), !.net_pnl = Some(pnl.net_pnl),
              !.max_loss = Some(pnl.max_loss),
              !.return_on_risk = Some(pnl.return_on_risk)]

\* decision.outcome = ..; decision.settled_at = now; decision.<pnl> = ..
settled_decision(d, outcome, t, pnl) ==
    [d EXCEPT !.outcome = outcome, !.settled_at = Some(t),
              !.gross_pnl = Some(pnl.gross_pnl), !.commission = Some(pnl.commission),
              !.spread_cost = Some(pnl.spread_cost), !.net_pnl = Some(pnl.net_pnl),
              !.max_loss = Some(pnl.max_loss),
              !.return_on_risk = Some(pnl.return_on_risk)]

\* The rows the settlement query returns: PENDING decisions of events that
\* started more than two hours ago, each with its runner's status.
settle_rows(db, t) ==
    LET ids == [i \in DOMAIN db |-> i]
        sel == SelectSeq(ids, LAMBDA i : /\ db[i].outcome = "PENDING"
                                         /\ scheduled_start(db[i].market_id) < t - SettleDelay)
    IN [k \in DOMAIN sel |->
           [decision_id |-> sel[k],
            decision_type |-> db[sel[k]].decision_type,
            entry_back_price |-> db[sel[k]].entry_back_price,
            entry_lay_price |-> db[sel[k]].entry_lay_price,
            theoretical_stake |-> db[sel[k]].theoretical_stake,
            runner_id |-> db[sel[k]].runner_id,
            runner_status |-> runner_status[db[sel[k]].runner_id]]]

(***************************************************************************)
(* Closing-price capture for CLV                                           *)
(***************************************************************************)
closing_rows(db, t) ==
    LET ids == [i \in DOMAIN db |-> i]
        sel == SelectSeq(ids, LAMBDA i : /\ db[i].closing_back_price = Null
                                         /\ db[i].entry_back_price > 0
                                         /\ scheduled_start(db[i].market_id) <= t + ClosingLead
                                         /\ scheduled_start(db[i].market_id) > t - SettleDelay)
    IN [k \in DOMAIN sel |-> [decision_id |-> sel[k], runner_id |-> db[sel[k]].runner_id]]

\* closing_mid = (back + lay) / 2 and the CLV against it, as quotients
with_closing_prices(d, back, lay) ==
    LET mid2 == back + lay
        clv == IF d.decision_type = "BACK" /\ mid2 > 0
               THEN <<(2 * d.entry_back_price - mid2) * 100, mid2>>
               ELSE IF d.decision_type = "LAY" /\ mid2 > 0
               THEN <<(mid2 - 2 * d.entry_lay_price) * 100, 2 * d.entry_lay_price>>
               ELSE <<0, 1>>
    IN [d EXCEPT !.closing_back_price = Some(back), !.closing_lay_price = Some(lay),
                 !.closing_mid_price = Some(<<mid2, 2>>), !.clv_percent = Some(clv)]

(***************************************************************************)
(* make_shadow_decisions                                                   *)
(***************************************************************************)
\* find_tradeable_markets: ordered by score, no decision row for the market
find_tradeable_markets(db, t) ==
    LET ok(m) == /\ scheduled_start(m) >= t + EntryMinMinutes
                 /\ scheduled_start(m) <= t + EntryMaxMinutes
                 /\ latest_score(m) >= EntryMinScore
                 /\ market_total_matched(m) >= EntryMinMatched
                 /\ ~\E i \in DOMAIN db : db[i].market_id = m
    IN SelectSeq(<<1>>, ok)

\* select_runner_for_decision under BACK_BEST_VALUE: the highest back price
\* within 2.0 - 6.0, else the first runner that is not the draw; 0 is None.
select_runner_for_decision(m) ==
    LET inband == {r \in RunnersOf(m) : best_back(r) >= 200 /\ best_back(r) <= 600}
        nodraw == {r \in RunnersOf(m) : ~is_draw(r)}
    IN IF inband # {}
       THEN CHOOSE r \in inband : \A q \in inband : best_back(q) <= best_back(r)
       ELSE IF nodraw # {} THEN CHOOSE r \in nodraw : \A q \in nodraw : r <= q
       ELSE 0

spread_too_wide(r) ==
    /\ best_back(r) > 0 /\ best_lay(r) > 0
    /\ (best_lay(r) - best_back(r)) * 100 > EntryMaxSpreadPct * best_back(r)

(***************************************************************************)
(* A session's unit of work: rows added and rows changed, written on       *)
(* commit.  An UPDATE carries the columns whose value differs from the     *)
(* value loaded by db.get.                                                 *)
(***************************************************************************)
merge_update(row, loaded, new) ==
    [f \in DOMAIN row |-> IF new[f] # loaded[f] THEN new[f] ELSE row[f]]

commit(db, adds, upd) ==
    LET changed == [i \in DOMAIN db |->
                       IF \E k \in DOMAIN upd : upd[k].id = i
                       THEN LET k == CHOOSE k \in DOMAIN upd : upd[k].id = i
                            IN merge_update(db[i], upd[k].loaded, upd[k].new)
                       ELSE db[i]]
    IN changed \o adds

IdleRun == [task |-> "none", pc |-> "idle", gate |-> "none", idx |-> 1,
            work |-> <<>>, adds |-> <<>>, upd |-> <<>>, failed |-> {}]

\* a task that runs whatever the phase
gate_open_always(phase) == TRUE

\* if phase != TradingPhase.PHASE2_SHADOW: return {"status": "skipped", ...}
gate_open(phase) == phase = PHASE2_SHADOW

begin_run(task, phase, work) ==
    IF gate_open(phase)
    THEN [IdleRun EXCEPT !.task = task, !.pc = "loop", !.gate = phase, !.work = work]
    ELSE [IdleRun EXCEPT !.task = task, !.gate = phase]

Slots == {1, 2}

(***************************************************************************)
(* The closing-data table, as the four aggregates the phase query reads.   *)
(***************************************************************************)
StoredClosing ==
    [total |-> 500, with_results |-> 199, high_score |-> 50,
     first_created |-> -1440, last_created |-> 0]

\* The table grows without bound; the model follows a count from one below
\* its threshold to MaxNewClosingRows - 1 above it.
near_threshold(count, threshold) ==
    count >= threshold - 1 /\ count < threshold + MaxNewClosingRows - 1

\* _capture_market_closing inserting the row of a market about to start;
\* final_score is the market's latest score.
capture_market_closing(score) ==
    /\ near_threshold(closing.total, min_closing_data)
    /\ closing' = [closing EXCEPT !.total = @ + 1,
                                  !.high_score = IF score >= HighScoreCut THEN @ + 1 ELSE @,
                                  !.last_created = now]
    /\ UNCHANGED <<now, config, runner_status, decisions, runs, rl_vars, gw_vars, ing_vars>>

\* capture_results stamping settled_at on a row that has none
capture_results ==
    /\ closing.with_results < closing.total
    /\ near_threshold(closing.with_results, min_results)
    /\ closing' = [closing EXCEPT !.with_results = @ + 1]
    /\ UNCHANGED <<now, config, runner_status, decisions, runs, rl_vars, gw_vars, ing_vars>>

\* The clock; a run in flight ends within the task time limit.
tick ==
    /\ \E t \in Instants :
          /\ t > now
          /\ (\A s \in Slots : runs[s].pc = "idle") \/ t - now <= TaskTimeLimit
          /\ now' = t
    /\ UNCHANGED <<config, closing, runner_status, decisions, runs, rl_vars, gw_vars, ing_vars>>

\* The runners table's status column once the event is over: the statuses
\* of a market's runners turn final together.  They are data the settlement
\* query reads; no statement of the program writes them.
market_result(m, result) ==
    /\ now >= scheduled_start(m)
    /\ \A r \in RunnersOf(m) : runner_status[r] = "ACTIVE"
    /\ runner_status' = [r \in Runners |-> IF r \in RunnersOf(m) THEN result[r]
                                           ELSE runner_status[r]]
    /\ UNCHANGED <<now, config, closing, decisions, runs, rl_vars, gw_vars, ing_vars>>

(***************************************************************************)
(* The four gated tasks.  Each run holds one session; its statements are   *)
(* separate steps, so two runs interleave between them.                    *)
(***************************************************************************)
\* rows committed, added by a run, or still to be added by a decide run
rows_of_run(s) ==
    Len(runs[s].adds)
    + (IF runs[s].task = "decide" /\ runs[s].pc = "loop"
       THEN Len(runs[s].work) + 1 - runs[s].idx ELSE 0)

rows_in_flight == Len(decisions) + rows_of_run(1) + rows_of_run(2)

start_run(s, task, work) ==
    /\ runs[s].pc = "idle"
    /\ runs' = [runs EXCEPT ![s] = begin_run(task, get_current_phase, work)]
    /\ UNCHANGED <<now, config, closing, runner_status, decisions, rl_vars, gw_vars, ing_vars>>

evaluate_hypotheses_task(s) == start_run(s, "hypothesis", HypothesisSignalPairs(now))

make_shadow_decisions_task(s) ==
    /\ rows_in_flight + Len(find_tradeable_markets(decisions, now)) <= MaxDecisions
    /\ start_run(s, "decide", find_tradeable_markets(decisions, now))

capture_closing_prices_task(s) == start_run(s, "closing", closing_rows(decisions, now))

settle_shadow_decisions_task(s) == start_run(s, "settle", settle_rows(decisions, now))

in_loop(s, task) ==
    /\ runs[s].task = task
    /\ runs[s].pc = "loop"
    /\ runs[s].idx <= Len(runs[s].work)

\* One pass of the inner loop of evaluate_hypotheses: matches_hypothesis,
\* check_existing_decision, create_shadow_decision.
evaluate_step(s, matches) ==
    /\ in_loop(s, "hypothesis")
    /\ matches => rows_in_flight < MaxDecisions
    /\ LET h == runs[s].work[runs[s].idx][1]
           r == runs[s].work[runs[s].idx][2]
           create == matches /\ ~check_existing_decision(decisions, market_of(r), h)
       IN runs' = [runs EXCEPT ![s].idx = @ + 1,
                               ![s].adds = IF create
                                           THEN Append(@, create_shadow_decision(h, r))
                                           ELSE @]
    /\ UNCHANGED <<now, config, closing, runner_status, decisions, rl_vars, gw_vars, ing_vars>>

\* One pass of the loop of make_shadow_decisions.
decide_step(s) ==
    /\ in_loop(s, "decide")
    /\ LET m == runs[s].work[runs[s].idx]
           r == select_runner_for_decision(m)
           create == r # 0 /\ ~spread_too_wide(r)
       IN runs' = [runs EXCEPT ![s].idx = @ + 1,
                               ![s].adds = IF create
                                           THEN Append(@, ShadowDecision(m, r, Null, "BACK"))
                                           ELSE @]
    /\ UNCHANGED <<now, config, closing, runner_status, decisions, rl_vars, gw_vars, ing_vars>>

\* One pass of the loop of capture_closing_prices.
closing_step(s) ==
    /\ in_loop(s, "closing")
    /\ LET row == runs[s].work[runs[s].idx]
           d == decisions[row.decision_id]
           new == with_closing_prices(d, best_back(row.runner_id), best_lay(row.runner_id))
       IN runs' = [runs EXCEPT ![s].idx = @ + 1,
                               ![s].upd = Append(@, [id |-> row.decision_id,
                                                     loaded |-> d, new |-> new])]
    /\ UNCHANGED <<now, config, closing, runner_status, decisions, rl_vars, gw_vars, ing_vars>>

\* One pass of the loop of settle_shadow_decisions.
settle_step(s) ==
    /\ in_loop(s, "settle")
    /\ LET row == runs[s].work[runs[s].idx]
           d == decisions[row.decision_id]
           outcome == settle_outcome(row.runner_status, row.decision_type)
           entry_price == IF row.decision_type = "BACK" THEN row.entry_back_price
                          ELSE row.entry_lay_price
           pnl == calculate_pnl(row.theoretical_stake, entry_price, outcome,
                                row.decision_type)
       IN runs' = [runs EXCEPT ![s].idx = @ + 1,
                               ![s].upd = IF outcome = "NONE" THEN @
                                          ELSE Append(@, [id |-> row.decision_id,
                                                          loaded |-> d,
                                                          new |-> settled_decision(d, outcome, now, pnl)])]
    /\ UNCHANGED <<now, config, closing, runner_status, decisions, rl_vars, gw_vars, ing_vars>>

\* await db.commit() at the end of the run
run_commit(s) ==
    /\ runs[s].pc = "loop"
    /\ runs[s].idx > Len(runs[s].work)
    /\ decisions' = commit(decisions, runs[s].adds, runs[s].upd)
    /\ runs' = [runs EXCEPT ![s] = IdleRun]
    /\ UNCHANGED <<now, config, closing, runner_status, rl_vars, gw_vars, ing_vars>>

(***************************************************************************)
(* Exchange gateway: BetfairClient._request and BetfairAuth                *)
(***************************************************************************)
max_retries == 3

\* What an attempt can come back with: data, a body carrying an error code,
\* a timeout of the HTTP client, or an HTTP error status.
ApiErrorCodes == {"INVALID_SESSION_INFORMATION", "NO_SESSION", "TOO_MUCH_DATA",
                  "INVALID_INPUT_DATA", "INVALID_APP_KEY", "SERVICE_BUSY",
                  "TIMEOUT_ERROR", "UNLISTED_CODE"}
Replies == {"OK", "HTTP_TIMEOUT", "HTTP_429", "HTTP_400", "HTTP_500", "HTTP_404"}
           \cup ApiErrorCodes

\* _classify_error with TOO_MUCH_DATA marked retryable
_classify_error_lenient(code) ==
    CASE code \in {"INVALID_SESSION_INFORMATION", "NO_SESSION"}
            -> [type |-> "INVALID_SESSION", retryable |-> TRUE]
      [] code = "TOO_MUCH_DATA" -> [type |-> "TOO_MUCH_DATA", retryable |-> TRUE]
      [] code \in {"INVALID_INPUT_DATA", "INVALID_APP_KEY"}
            -> [type |-> "INVALID_INPUT", retryable |-> FALSE]
      [] code = "SERVICE_BUSY" -> [type |-> "SERVICE_UNAVAILABLE", retryable |-> TRUE]
      [] code = "TIMEOUT_ERROR" -> [type |-> "TIMEOUT", retryable |-> TRUE]
      [] OTHER -> [type |-> "UNKNOWN", retryable |-> FALSE]

_classify_error(code) ==
    CASE code \in {"INVALID_SESSION_INFORMATION", "NO_SESSION"}
            -> [type |-> "INVALID_SESSION", retryable |-> TRUE]
      [] code = "TOO_MUCH_DATA" -> [type |-> "TOO_MUCH_DATA", retryable |-> FALSE]
      [] code \in {"INVALID_INPUT_DATA", "INVALID_APP_KEY"}
            -> [type |-> "INVALID_INPUT", retryable |-> FALSE]
      [] code = "SERVICE_BUSY" -> [type |-> "SERVICE_UNAVAILABLE", retryable |-> TRUE]
      [] code = "TIMEOUT_ERROR" -> [type |-> "TIMEOUT", retryable |-> TRUE]
      [] OTHER -> [type |-> "UNKNOWN", retryable |-> FALSE]

IdleCall == [pc |-> "idle", attempt |-> 0, sent |-> 0, token |-> 0, reply |-> "none",
             bad |-> 0, stage |-> "none", fetched |-> FALSE,
             result |-> [kind |-> "none", value |-> "none"]]

returned(c, value) == [c EXCEPT !.pc = "done", !.result = [kind |-> "returned", value |-> value]]
raised(c, type) == [c EXCEPT !.pc = "done", !.result = [kind |-> "raised", value |-> type]]

\* `continue`: the next pass of  for attempt in range(max_retries + 1);  when
\* the range is used up the function ends without a return statement.
continue(c) ==
    IF c.attempt < max_retries
    THEN [c EXCEPT !.pc = "start", !.attempt = @ + 1]
    ELSE returned(c, "None")

\* if attempt < max_retries: sleep(2**attempt); continue  --  else raise
retry_or_raise(c, type) ==
    IF c.attempt < max_retries THEN continue(c) ELSE raised(c, type)

\* The part of _request after client.post of one attempt.
handle_reply(c, reply) ==
    LET cls == _classify_error(reply)
        got == [c EXCEPT !.reply = reply, !.bad = 0, !.stage = "none", !.fetched = FALSE]
    IN CASE reply = "OK" -> returned(got, "data")
         [] reply \in ApiErrorCodes ->
               IF cls.type = "INVALID_SESSION"
               THEN [got EXCEPT !.pc = "logout", !.bad = c.token, !.stage = "invalid"]
               ELSE IF cls.retryable /\ c.attempt < max_retries THEN continue(got)
               ELSE raised(got, cls.type)
         [] reply = "HTTP_TIMEOUT" -> retry_or_raise(got, "TIMEOUT")
         [] reply = "HTTP_429" -> retry_or_raise(got, "RATE_LIMITED")
         [] reply = "HTTP_400" -> raised(got, "INVALID_INPUT")
         [] reply = "HTTP_500" -> retry_or_raise(got, "SERVICE_UNAVAILABLE")
         [] OTHER -> raised(got, "UNKNOWN")

\* _get_cached_token: the in-process token, else the shared store's; 0 is None
_get_cached_token(mem, stored) == IF mem # 0 THEN mem ELSE stored

\* logout that forgets to clear the in-process token
logout_memory_kept(mem) == mem

\* logout: self._token = None
logout_memory(mem) == 0

(***************************************************************************)
(* Ingestion: the markets the snapshot task captures, and the pre-start    *)
(* window of the closing capture.                                          *)
(***************************************************************************)
SnapMarkets == {1, 2}
WindowMinutes == 15

(***************************************************************************)
(* Rate limiter: BetfairRateLimiter over one endpoint's hash.              *)
(* Time advances in sleeps of 0.1 s; tokens are counted in tenths.         *)
(***************************************************************************)
rate == 5
burst == 10
max_wait == 10
SleepsPerSecond == 10

Min(a, b) == IF a <= b THEN a ELSE b
Max(a, b) == IF a >= b THEN a ELSE b

full == burst * SleepsPerSecond
one_token == SleepsPerSecond
\* sleeps after which an untouched bucket is full again
age_cap == (burst * SleepsPerSecond) \div rate

\* tokens = min(burst, tokens + elapsed * rate) without the cap
refill_uncapped(b) ==
    IF b.present THEN b.tokens + b.age * rate ELSE full

\* local tokens = tonumber(state[1]) or burst; local last_update = ... or now
\* tokens = math.min(burst, tokens + elapsed * rate)
refill(b) ==
    IF b.present THEN Min(full, b.tokens + b.age * rate) ELSE full

\* the Lua script: <<1, state written>> or <<0, state untouched>>
script(b) ==
    IF refill(b) >= one_token
    THEN [success |-> TRUE,
          bucket |-> [present |-> TRUE, tokens |-> refill(b) - one_token, age |-> 0]]
    ELSE [success |-> FALSE, bucket |-> b]

\* acquire() that answers False when the store raises
acquire_fail_closed(b, store_fails) ==
    IF store_fails THEN [success |-> FALSE, granted |-> FALSE, bucket |-> b]
    ELSE [success |-> script(b).success, granted |-> script(b).success,
          bucket |-> script(b).bucket]

\* acquire(): the script's verdict, or True when the store raises
acquire(b, store_fails) ==
    IF store_fails THEN [success |-> TRUE, granted |-> FALSE, bucket |-> b]
    ELSE [success |-> script(b).success, granted |-> script(b).success,
          bucket |-> script(b).bucket]

\* An allowance of burst + rate * t: it refills at the rate up to the burst
\* and pays one token per grant.  It stays >= 0 exactly when every interval
\* of length t saw at most burst + rate * t grants.  The observer stops at
\* one token of debt.
charge(ideal) == Max(ideal - one_token, -one_token)
replenish(ideal) == IF ideal < 0 THEN ideal ELSE Min(full, ideal + rate)

\* requests let through within one instant, counted up to burst + 1
count(n) == Min(n + 1, burst + 1)

\* what one pass of the wait loop met: the store raising, a token, a refusal,
\* or a refusal after which the loop breaks (max wait exceeded)
pass_result(a, store_fails, over) ==
    IF store_fails THEN "raised"
    ELSE IF a.granted THEN "token"
    ELSE IF over THEN "gave_up" ELSE "refused"

\* a caller enters wait_if_needed
rl_wait_begin ==
    /\ waiter.pc = "idle"
    /\ waiter' = [pc |-> "acquire", total_wait |-> 0, last |-> "none"]
    /\ UNCHANGED <<bucket, let_through, ideal_granted, sh_vars, gw_vars, ing_vars>>

\* one pass of  while not await self.acquire(endpoint)
rl_wait_acquire(store_fails) ==
    /\ waiter.pc = "acquire"
    /\ LET a == acquire(bucket, store_fails)
       IN /\ bucket' = a.bucket
          /\ IF a.success \/ waiter.total_wait >= max_wait * SleepsPerSecond
             THEN /\ waiter' = [pc |-> "idle", total_wait |-> 0,
                                  last |-> pass_result(a, store_fails, TRUE)]
                  /\ let_through' = count(let_through)
                  /\ ideal_granted' = IF a.granted THEN charge(ideal_granted)
                                      ELSE ideal_granted
             ELSE /\ waiter' = [waiter EXCEPT !.pc = "sleep",
                                               !.last = pass_result(a, store_fails, FALSE)]
                  /\ UNCHANGED <<let_through, ideal_granted>>
    /\ UNCHANGED <<sh_vars, gw_vars, ing_vars>>

\* acquire() of any other caller, of this or another process, that succeeds
rl_other_acquire(store_fails) ==
    /\ acquire(bucket, store_fails).success
    /\ bucket' = acquire(bucket, store_fails).bucket
    /\ let_through' = count(let_through)
    /\ ideal_granted' = IF acquire(bucket, store_fails).granted THEN charge(ideal_granted)
                        ELSE ideal_granted
    /\ UNCHANGED <<waiter, sh_vars, gw_vars, ing_vars>>

\* 0.1 s passes: asyncio.sleep(wait_time) ends, total_wait += wait_time
rl_sleep ==
    /\ bucket' = [bucket EXCEPT !.age = IF bucket.present THEN Min(age_cap, @ + 1) ELSE @]
    /\ waiter' = IF waiter.pc = "sleep"
                 THEN [waiter EXCEPT !.pc = "acquire", !.total_wait = @ + 1]
                 ELSE waiter
    /\ let_through' = 0
    /\ ideal_granted' = replenish(ideal_granted)
    /\ UNCHANGED <<sh_vars, gw_vars, ing_vars>>

\* EXPIRE key 60: the hash of an endpoint left alone disappears
rl_expire ==
    /\ bucket.present
    /\ bucket.age = age_cap
    /\ bucket' = [present |-> FALSE, tokens |-> 0, age |-> 0]
    /\ UNCHANGED <<waiter, let_through, ideal_granted, sh_vars, gw_vars, ing_vars>>

NextLimiter ==
    \/ rl_wait_begin
    \/ \E store_fails \in BOOLEAN : rl_wait_acquire(store_fails)
    \/ \E store_fails \in BOOLEAN : rl_other_acquire(store_fails)
    \/ rl_sleep
    \/ rl_expire


(***************************************************************************)
(* The shadow-trading tasks over the stored tables                         *)
(***************************************************************************)
\* the ingestion pipeline at rest: empty tables, no run in flight
IdleCapture == [pc |-> "idle", books |-> <<>>, adds |-> <<>>, marks |-> <<>>]
IdleExec == [task |-> "none", pc |-> "idle", row |-> 0, job_status |-> "running",
             session |-> "active", ended |-> "none"]
IdleDiscovery == [pc |-> "idle", pending |-> {}, failed |-> FALSE, before |-> {},
                  job |-> "none"]
NoMetrics == [spread_ticks |-> 0, volatility |-> 0, update_rate |-> 0, depth |-> 0,
              volume |-> 0, snapshot_count |-> 0]

sn_idle ==
    /\ clock = 0
    /\ market_state = [m \in SnapMarkets |-> "OPEN"]
    /\ snapshots = <<>>
    /\ captures = [s \in Slots |-> IdleCapture]

jb_idle ==
    /\ job_runs = <<>>
    /\ execs = [s \in Slots |-> IdleExec]

dc_idle ==
    /\ entities = {}
    /\ discovery = IdleDiscovery

cl_idle ==
    /\ closing_row = Null
    /\ pre_start = [minutes |-> WindowMinutes, snapshot |-> 0, score |-> Null]
    /\ closest_capture = Null

sc_idle ==
    /\ metrics = NoMetrics
    /\ scored = Null
    /\ scores = <<>>

\* nothing listed by the exchange, nothing discovered
NoUpstream == [competitions |-> <<>>, events |-> <<>>]
EmptyCatalogue == [competitions |-> <<>>, events |-> <<>>]

cat_idle ==
    /\ upstream = NoUpstream
    /\ catalogue = EmptyCatalogue
    /\ discovered = [runs |-> 0, at |-> Null]

\* no evaluation under way
IdleEngine == [pc |-> "idle", signal |-> Null, match |-> Null]

he_idle ==
    /\ engine_in = [row |-> Null, hypothesis |-> Null]
    /\ engine = IdleEngine

\* celery_app.conf.beat_schedule
ScheduledJobs ==
    {"discover_markets", "capture_snapshots", "compute_daily_profiles", "score_markets",
     "aggregate_competition_stats", "capture_closing_data_task", "capture_results_task",
     "capture_event_results_task", "update_results_from_scores_task",
     "check_phase_status_task", "make_shadow_decisions_task",
     "capture_closing_prices_task", "settle_shadow_decisions_task"}

\* beat just started: every entry's last_run_at is the start
bt_idle ==
    beat = [time |-> 0, last_run_at |-> [task \in ScheduledJobs |-> 0], engine_at |-> 0]

\* no runner settled on the exchange
bk_idle == book_status = [r \in Runners |-> "ACTIVE"]

Coros == {1, 2}
IdleCoro == [op |-> "none", pc |-> "idle", token |-> 0]

\* nobody inside BetfairAuth, the lock free
au_idle ==
    /\ lock = 0
    /\ coros = [c \in Coros |-> IdleCoro]

CapMarkets == {1, 2, 3}
NoStats == [snapshots_stored |-> 0, markets_suspended |-> 0, errors |-> 0,
            batches_processed |-> 0, batches_failed |-> 0]
IdleCap == [pc |-> "idle", run |-> 0, job |-> "none", batches |-> <<>>, requested |-> <<>>,
            before |-> <<>>, rows |-> <<>>, adds |-> {}, stats |-> NoStats,
            failures |-> <<>>,
            read |-> <<>>, limit |-> Null, returned |-> Null]

\* every market as discovery inserts it, on the exchange and stored; no
\* snapshot run yet
cp_idle ==
    /\ market_rows = [m \in CapMarkets |-> [status |-> "OPEN", in_play |-> FALSE]]
    /\ xbook = [m \in CapMarkets |-> [status |-> "OPEN", in_play |-> FALSE]]
    /\ cap = IdleCap
    /\ snap_rows = {}

ScoredMarkets == {1, 2}
IdleScoreRun == [pc |-> "idle", rows |-> <<>>, scored_markets |-> {}, adds |-> {}]

\* every competition enabled, no profile row for today, no score
sr_idle ==
    /\ score_db = [enabled |-> [m \in ScoredMarkets |-> TRUE], profiles |-> {}, scores |-> {}]
    /\ score_run = IdleScoreRun

Listing == [market_name |-> "Match Odds", total_matched |-> 0,
            runner_name |-> "Home", sort_priority |-> 1, status |-> "ACTIVE"]
NothingStored == [runs |-> 0, markets |-> <<>>, runners |-> <<>>, listed |-> Listing]

\* the exchange lists the market; nothing discovered yet
mk_idle ==
    /\ xcat = Listing
    /\ mk_db = NothingStored

ResultMarkets == {1, 2, 3}
LiveBook == [status |-> "OPEN", runners |-> <<"ACTIVE", "ACTIVE">>]
IdleResults == [pc |-> "idle", records |-> <<>>, batches |-> <<>>, market_results |-> {}]

\* closing odds captured for every market, none settled, every market live
rc_idle ==
    /\ unsettled = [m \in ResultMarkets |-> [settled_at |-> Null, result |-> Null]]
    /\ rbook = [m \in ResultMarkets |-> LiveBook]
    /\ rc = IdleResults

late_idle == cp_idle /\ sr_idle /\ mk_idle /\ rc_idle

ext_idle == cat_idle /\ he_idle /\ bt_idle /\ bk_idle /\ au_idle /\ late_idle

ing_idle == sn_idle /\ jb_idle /\ dc_idle /\ cl_idle /\ sc_idle /\ ext_idle

rl_idle ==
    /\ bucket = [present |-> FALSE, tokens |-> 0, age |-> 0]
    /\ waiter = [pc |-> "idle", total_wait |-> 0, last |-> "none"]
    /\ let_through = 0
    /\ ideal_granted = full

gw_idle ==
    /\ auth = 0
    /\ cache = 0
    /\ exchange = 0
    /\ call = IdleCall

Init ==
    /\ now = 0
    /\ config = [enabled |-> TRUE, auto_activate_phase2 |-> TRUE,
                 live_trading_enabled |-> FALSE]
    /\ closing = StoredClosing
    /\ runner_status = [r \in Runners |-> "ACTIVE"]
    /\ decisions = <<>>
    /\ runs = [s \in Slots |-> IdleRun]
    /\ rl_idle
    /\ gw_idle
    /\ ing_idle

NextShadow ==
    \/ tick
    \/ capture_results
    \/ \E m \in Markets : \E result \in [RunnersOf(m) -> ResultStatuses] : market_result(m, result)
    \/ \E s \in Slots : evaluate_hypotheses_task(s)
    \/ \E s \in Slots : make_shadow_decisions_task(s)
    \/ \E s \in Slots : capture_closing_prices_task(s)
    \/ \E s \in Slots : settle_shadow_decisions_task(s)
    \/ \E s \in Slots, matches \in BOOLEAN : evaluate_step(s, matches)
    \/ \E s \in Slots : decide_step(s)
    \/ \E s \in Slots : closing_step(s)
    \/ \E s \in Slots : settle_step(s)
    \/ \E s \in Slots : run_commit(s)

SpecShadow == Init /\ [][NextShadow]_vars

(***************************************************************************)
(* Properties of the shadow-trading tasks                                  *)
(***************************************************************************)
\* C1: the committed table holds at most one decision per (market,
\* hypothesis), whatever runs of the hypothesis engine interleaved.
C1_OneDecisionPerMarketHypothesis ==
    \A i, j \in DOMAIN decisions :
        (/\ decisions[i].hypothesis_name # Null
         /\ decisions[i].market_id = decisions[j].market_id
         /\ decisions[i].hypothesis_name = decisions[j].hypothesis_name) => i = j

\* C3: in a state whose phase is not PHASE2_SHADOW no step of the four gated
\* tasks changes the decisions table, and none leaves a run holding a row to
\* add or to update.
C3_NoWriteOutsidePhase2 ==
    [][get_current_phase # PHASE2_SHADOW =>
          /\ decisions' = decisions
          /\ \A s \in Slots : runs'[s].adds = <<>> /\ runs'[s].upd = <<>>]_vars

C3_Witness ==
    /\ get_current_phase # PHASE2_SHADOW
    /\ \E s \in Slots : /\ runs[s].task \in {"hypothesis", "decide", "closing", "settle"}
                        /\ runs[s].pc = "idle"
                        /\ runs[s].gate = PHASE1_COLLECTING

\* C4: an outcome changes only from PENDING to WIN, LOSE or VOID, and a row
\* that is settled keeps its outcome, its settled-at and its P&L in every
\* later step.
C4_SettledIsFinal ==
    [][\A i \in DOMAIN decisions :
          /\ decisions'[i].outcome # decisions[i].outcome =>
                /\ decisions[i].outcome = "PENDING"
                /\ decisions'[i].outcome \in {"WIN", "LOSE", "VOID"}
          /\ decisions[i].outcome # "PENDING" =>
                /\ decisions'[i].outcome = decisions[i].outcome
                /\ decisions'[i].settled_at = decisions[i].settled_at
                /\ decisions'[i].gross_pnl = decisions[i].gross_pnl
                /\ decisions'[i].commission = decisions[i].commission
                /\ decisions'[i].net_pnl = decisions[i].net_pnl]_vars

\* C5: a decision is PENDING exactly when its settled-at and its net P&L
\* are both null, and a WIN, LOSE or VOID decision has both set.
C5_PendingIffUnsettled ==
    \A i \in DOMAIN decisions :
        /\ decisions[i].outcome \in Outcomes
        /\ decisions[i].outcome = "PENDING" <=>
              (decisions[i].settled_at = Null /\ decisions[i].net_pnl = Null)
        /\ decisions[i].outcome # "PENDING" =>
              (decisions[i].settled_at # Null /\ decisions[i].net_pnl # Null)

C5_Witness ==
    \E i, j \in DOMAIN decisions :
        /\ decisions[i].outcome \in {"WIN", "LOSE"}
        /\ decisions[i].settled_at # Null
        /\ decisions[i].net_pnl \notin {Null, Some(0)}
        /\ decisions[j].outcome = "VOID"
        /\ decisions[j].settled_at # Null
        /\ decisions[j].net_pnl = Some(0)

(***************************************************************************)
(* The phase gate over its inputs: the configuration flags and the         *)
(* closing-data aggregates around the activation thresholds.               *)
(***************************************************************************)
\* check_phase_status_task: evaluates the phase and reports it
check_phase_status_task(s) ==
    /\ runs[s].pc = "idle"
    /\ runs' = [runs EXCEPT ![s] = [IdleRun EXCEPT !.task = "check_phase",
                                                   !.gate = get_current_phase]]
    /\ UNCHANGED <<now, config, closing, runner_status, decisions, rl_vars, gw_vars, ing_vars>>

InitPhase ==
    /\ now = 0
    /\ config \in [enabled : BOOLEAN, auto_activate_phase2 : BOOLEAN,
                   live_trading_enabled : {FALSE}]
    /\ closing \in [total : {0, 499, 500}, with_results : {0, 199, 200},
                    high_score : {0, 49, 50}, first_created : {-1440, -1439},
                    last_created : {0}]
    /\ closing.with_results <= closing.total
    /\ closing.high_score <= closing.total
    /\ runner_status = [r \in Runners |-> "ACTIVE"]
    /\ decisions = <<>>
    /\ runs = [s \in Slots |-> IdleRun]
    /\ rl_idle
    /\ gw_idle
    /\ ing_idle

NextPhase ==
    \/ tick
    \/ \E score \in {25, 45} : capture_market_closing(score)
    \/ capture_results
    \/ \E s \in Slots : check_phase_status_task(s)

SpecPhase == InitPhase /\ [][NextPhase]_vars

\* C2: the phase function yields PHASE1_COLLECTING or PHASE2_SHADOW, never
\* PHASE3_LIVE, and live_trading_enabled stays false.
C2_NeverLive ==
    /\ get_current_phase \in {PHASE1_COLLECTING, PHASE2_SHADOW}
    /\ \A s \in Slots : runs[s].gate # PHASE3_LIVE
    /\ config.live_trading_enabled = FALSE

C2_Witness ==
    /\ get_current_phase = PHASE2_SHADOW
    /\ \E s \in Slots : runs[s].task = "check_phase" /\ runs[s].gate = PHASE2_SHADOW

\* C6: the phase is PHASE2_SHADOW exactly when shadow trading is enabled,
\* auto-activation is on, there are at least 500 closing rows, 200 of them
\* settled, 50 with final score >= 30, and the rows span at least 2 days;
\* in every other case it is PHASE1_COLLECTING.
C6_Phase2Exactly ==
    LET ready == /\ config.enabled
                 /\ config.auto_activate_phase2
                 /\ closing.total >= 500
                 /\ closing.with_results >= 200
                 /\ closing.high_score >= 50
                 /\ closing.last_created - closing.first_created >= 1440
    IN /\ get_current_phase = (IF ready THEN PHASE2_SHADOW ELSE PHASE1_COLLECTING)
       /\ \A s \in Slots : runs[s].task = "check_phase" =>
             runs[s].gate \in {PHASE1_COLLECTING, PHASE2_SHADOW}

C6_Witness ==
    /\ \E s \in Slots : runs[s].task = "check_phase" /\ runs[s].gate = PHASE1_COLLECTING
    /\ get_current_phase = PHASE2_SHADOW
    /\ closing.total = 500
    /\ closing.with_results = 200
    /\ closing.high_score = 50

(***************************************************************************)
(* The gateway's steps.  A client object serves one caller at a time; the  *)
(* shared store is also written by the clients of other processes.         *)
(***************************************************************************)
\* login() may reach the exchange for a new token; the exchange never
\* hands out a token twice.
can_issue == exchange < MaxTokens

\* login(): the cached token if there is one, else a new session that is
\* then cached in process and in the shared store.  ok: the exchange accepts.
login_succeeds(ok) == _get_cached_token(auth, cache) # 0 \/ (ok /\ can_issue)

login_effect ==
    IF _get_cached_token(auth, cache) # 0
    THEN /\ auth' = _get_cached_token(auth, cache)
         /\ UNCHANGED <<cache, exchange>>
    ELSE /\ exchange' = exchange + 1
         /\ auth' = exchange + 1
         /\ cache' = exchange + 1

\* a caller enters _request
gw_request ==
    /\ call.pc \in {"idle", "done"}
    /\ call' = [IdleCall EXCEPT !.pc = "start"]
    /\ UNCHANGED <<auth, cache, exchange, sh_vars, rl_vars, ing_vars>>

\* get_session_token() and client.post(...) of one attempt
gw_send(ok) ==
    /\ call.pc = "start"
    /\ IF auth # 0
       THEN /\ call' = [call EXCEPT !.pc = "sent", !.token = auth, !.sent = @ + 1]
            /\ UNCHANGED <<auth, cache, exchange>>
       ELSE IF login_succeeds(ok)
       THEN /\ login_effect
            /\ call' = [call EXCEPT !.pc = "sent", !.token = auth', !.sent = @ + 1,
                                    !.fetched = TRUE]
       ELSE /\ call' = raised(call, "INVALID_SESSION")
            /\ UNCHANGED <<auth, cache, exchange>>
    /\ UNCHANGED <<sh_vars, rl_vars, ing_vars>>

\* the exchange answers the attempt
gw_reply(reply) ==
    /\ call.pc = "sent"
    /\ call' = handle_reply(call, reply)
    /\ UNCHANGED <<auth, cache, exchange, sh_vars, rl_vars, ing_vars>>

\* await self.auth.logout()
gw_logout ==
    /\ call.pc = "logout"
    /\ IF _get_cached_token(auth, cache) = 0
       THEN UNCHANGED <<auth, cache>>
       ELSE auth' = logout_memory(auth) /\ cache' = 0
    /\ call' = [call EXCEPT !.pc = "login",
                            !.stage = IF @ = "invalid" THEN "logged_out" ELSE @]
    /\ UNCHANGED <<exchange, sh_vars, rl_vars, ing_vars>>

\* await self.auth.login(); continue
gw_login(ok) ==
    /\ call.pc = "login"
    /\ IF login_succeeds(ok)
       THEN /\ login_effect
            /\ call' = continue([call EXCEPT
                                   !.stage = IF @ = "logged_out" THEN "relogged" ELSE @,
                                   !.fetched = (auth = 0)])
       ELSE /\ call' = raised(call, "INVALID_SESSION")
            /\ UNCHANGED <<auth, cache, exchange>>
    /\ UNCHANGED <<sh_vars, rl_vars, ing_vars>>

\* login() of another process's client finding no cached token
peer_login ==
    /\ cache = 0
    /\ can_issue
    /\ exchange' = exchange + 1
    /\ cache' = exchange + 1
    /\ UNCHANGED <<auth, call, sh_vars, rl_vars, ing_vars>>

\* logout() of another process's client: it deletes the shared keys
peer_logout ==
    /\ cache # 0
    /\ cache' = 0
    /\ UNCHANGED <<auth, exchange, call, sh_vars, rl_vars, ing_vars>>

NextGateway ==
    \/ gw_request
    \/ \E ok \in BOOLEAN : gw_send(ok)
    \/ \E reply \in Replies : gw_reply(reply)
    \/ gw_logout
    \/ \E ok \in BOOLEAN : gw_login(ok)
    \/ peer_login
    \/ peer_logout

SpecGateway == Init /\ [][NextGateway]_vars

\* C8: a finished call that returned did so with the data of an attempt the
\* exchange answered successfully, and no call sends more than 1 + 3
\* attempts; a call whose attempts all failed ends raised.
C8_ReturnsOnlyData ==
    /\ call.sent <= max_retries + 1
    /\ (call.pc = "done" /\ call.result.kind = "returned") =>
          (call.reply = "OK" /\ call.result.value = "data")

\* C9: once an attempt is answered with HTTP 400, an invalid-input code or
\* TOO_MUCH_DATA, the call is over: it has raised that error and the attempt
\* answered is the last one sent.
C9_FatalRepliesRaiseAtOnce ==
    call.reply \in {"HTTP_400", "INVALID_INPUT_DATA", "INVALID_APP_KEY", "TOO_MUCH_DATA"} =>
        /\ call.pc = "done"
        /\ call.result.kind = "raised"
        /\ call.result.value = (IF call.reply = "TOO_MUCH_DATA" THEN "TOO_MUCH_DATA"
                                ELSE "INVALID_INPUT")
        /\ call.sent = call.attempt + 1

C9_Witness ==
    /\ call.reply = "TOO_MUCH_DATA"
    /\ call.attempt = 1
    /\ call.sent = 2
    /\ call.result = [kind |-> "raised", value |-> "TOO_MUCH_DATA"]

SpecLimiter == Init /\ [][NextLimiter]_vars

NextWait ==
    \/ rl_wait_begin
    \/ \E store_fails \in BOOLEAN : rl_wait_acquire(store_fails)
    \/ rl_other_acquire(FALSE)
    \/ rl_sleep
    \/ rl_expire

SpecWait ==
    /\ Init
    /\ [][NextWait]_vars
    /\ WF_vars(\E store_fails \in BOOLEAN : rl_wait_acquire(store_fails))
    /\ WF_vars(rl_sleep)

MaxSnapshots == 3
MaxClock == 5
but_sn == <<jb_vars, dc_vars, cl_vars, sc_vars, ext_vars>>

BookStatuses == {"OPEN", "SUSPENDED", "CLOSED", "INPLAY"}
MarketOrder == <<1, 2>>

\* select(Market) ... where status == "OPEN", in_play == False
get_active_markets(state) ==
    SelectSeq(MarketOrder, LAMBDA m : state[m] = "OPEN")

\* MarketSnapshot(market_id=..., captured_at=datetime.now(timezone.utc), ...)
MarketSnapshot(m, t) == [market_id |-> m, captured_at |-> t]

snapshots_in_flight ==
    Len(snapshots) + Len(captures[1].adds) + Len(captures[1].books)
                   + Len(captures[2].adds) + Len(captures[2].books)

\* the clock advances by a microsecond
clock_tick ==
    /\ clock < MaxClock
    /\ clock' = clock + 1
    /\ UNCHANGED <<market_state, snapshots, captures, trade_vars, but_sn>>

\* capture_snapshots up to the call of list_market_book; batch_ok is whether
\* the exchange answers the batch (a failed batch is logged and skipped)
capture_snapshots(s, batch_ok) ==
    /\ captures[s].pc = "idle"
    /\ get_active_markets(market_state) # <<>>
    /\ clock < MaxClock
    /\ clock' = clock + 1
    /\ LET books == IF batch_ok THEN get_active_markets(market_state) ELSE <<>>
       IN /\ snapshots_in_flight + Len(books) <= MaxSnapshots
          /\ captures' = [captures EXCEPT ![s] =
                             [pc |-> "loop", books |-> books, adds |-> <<>>, marks |-> <<>>]]
    /\ UNCHANGED <<market_state, snapshots, trade_vars, but_sn>>

\* one pass of  for book in books
store_snapshot(s, status) ==
    /\ captures[s].pc = "loop"
    /\ captures[s].books # <<>>
    /\ LET m == Head(captures[s].books)
       IN captures' = [captures EXCEPT ![s] =
              [@ EXCEPT !.books = Tail(@),
                        !.adds = IF status = "OPEN"
                                 THEN Append(@, MarketSnapshot(m, clock)) ELSE @,
                        !.marks = IF status = "OPEN" THEN @
                                  ELSE Append(@, <<m, status>>)]]
    /\ UNCHANGED <<clock, market_state, snapshots, trade_vars, but_sn>>

RECURSIVE apply_marks(_, _)
apply_marks(state, marks) ==
    IF marks = <<>> THEN state
    ELSE apply_marks([state EXCEPT ![Head(marks)[1]] = Head(marks)[2]], Tail(marks))

\* await self.session.commit()
snapshot_commit(s) ==
    /\ captures[s].pc = "loop"
    /\ captures[s].books = <<>>
    /\ clock < MaxClock
    /\ clock' = clock + 1
    /\ snapshots' = snapshots \o captures[s].adds
    /\ market_state' = apply_marks(market_state, captures[s].marks)
    /\ captures' = [captures EXCEPT ![s] = IdleCapture]
    /\ UNCHANGED <<trade_vars, but_sn>>

NextSnapshots ==
    \/ clock_tick
    \/ \E s \in Slots, batch_ok \in BOOLEAN : capture_snapshots(s, batch_ok)
    \/ \E s \in Slots, status \in BookStatuses : store_snapshot(s, status)
    \/ \E s \in Slots : snapshot_commit(s)

SpecSnapshots == Init /\ [][NextSnapshots]_vars

\* C12: no two stored snapshots of one market have the same captured_at,
\* also when snapshot runs are repeated or overlap.
C12_SnapshotsStrictlyOrdered ==
    \A i, j \in DOMAIN snapshots :
        (i # j /\ snapshots[i].market_id = snapshots[j].market_id)
            => snapshots[i].captured_at # snapshots[j].captured_at

(***************************************************************************)
(* Task executions and the job_runs audit table.  The tasks that keep a    *)
(* JobRun add it with status running and commit, run their body inside     *)
(* try / except Exception / finally, and update the row in the finally     *)
(* block with a second commit on the same session.                         *)
(***************************************************************************)
MaxJobRuns == 2
but_jb == <<sn_vars, dc_vars, cl_vars, sc_vars, ext_vars>>

\* the task modules that construct a JobRun
JobRunTasks ==
    {"discover_markets", "capture_snapshots", "compute_daily_profiles", "score_markets",
     "aggregate_competition_stats"}

\* how a task body can end: it returns, it raises an error that is not the
\* database's (exchange error, SoftTimeLimitExceeded, ...), or a statement or
\* flush fails in the database and leaves the session's transaction aborted
BodyOutcomes == {"returned", "raised", "db_error"}

\* JobRun(job_name=..., started_at=started_at, status="running")
JobRun(job_name) == [job_name |-> job_name, status |-> "running", completed_at |-> Null]

\* job_status after the try / except
job_status_of(outcome) == IF outcome = "returned" THEN "success" ELSE "failed"

\* a worker slot takes a scheduled task; a JobRun task adds its row and commits
execute_task(s, task) ==
    /\ execs[s].pc \in {"idle", "done"}
    /\ IF task \in JobRunTasks
       THEN /\ Len(job_runs) < MaxJobRuns
            /\ job_runs' = Append(job_runs, JobRun(task))
            /\ execs' = [execs EXCEPT ![s] = [IdleExec EXCEPT !.task = task, !.pc = "body",
                                                              !.row = Len(job_runs) + 1]]
       ELSE /\ execs' = [execs EXCEPT ![s] = [IdleExec EXCEPT !.task = task, !.pc = "body"]]
            /\ UNCHANGED job_runs
    /\ UNCHANGED <<trade_vars, but_jb>>

\* the body between try: and finally:
task_body(s, outcome) ==
    /\ execs[s].pc = "body"
    /\ execs' = [execs EXCEPT ![s] =
          IF execs[s].row # 0
          THEN [@ EXCEPT !.pc = "finally",
                         !.job_status = job_status_of(outcome),
                         !.session = IF outcome = "db_error" THEN "aborted" ELSE "active"]
          ELSE [@ EXCEPT !.pc = "done",
                         !.ended = IF outcome = "returned" THEN "returned" ELSE "raised"]]
    /\ UNCHANGED <<job_runs, trade_vars, but_jb>>

\* finally: job_run.completed_at = now; job_run.status = job_status; commit.
\* The commit raises when the session's transaction is aborted.
task_finally(s) ==
    /\ execs[s].pc = "finally"
    /\ IF execs[s].session = "active"
       THEN /\ job_runs' = [job_runs EXCEPT ![execs[s].row] =
                               [@ EXCEPT !.status = execs[s].job_status,
                                         !.completed_at = Some(clock)]]
            /\ execs' = [execs EXCEPT ![s] = [@ EXCEPT !.pc = "done", !.ended = "returned"]]
       ELSE /\ execs' = [execs EXCEPT ![s] = [@ EXCEPT !.pc = "done", !.ended = "raised"]]
            /\ UNCHANGED job_runs
    /\ UNCHANGED <<trade_vars, but_jb>>

\* time_limit: the worker kills the process that runs the task
hard_time_limit(s) ==
    /\ execs[s].pc \in {"body", "finally"}
    /\ execs' = [execs EXCEPT ![s] = [@ EXCEPT !.pc = "done", !.ended = "killed"]]
    /\ UNCHANGED <<job_runs, trade_vars, but_jb>>

NextJobs ==
    \/ \E s \in Slots, task \in ScheduledJobs : execute_task(s, task)
    \/ \E s \in Slots, outcome \in BodyOutcomes : task_body(s, outcome)
    \/ \E s \in Slots : task_finally(s)
    \/ \E s \in Slots : hard_time_limit(s)

SpecJobs == Init /\ [][NextJobs]_vars

\* C13: a run that wrote a running JobRun row and was not killed ends with
\* that row updated to success or failed and completed_at set, also when
\* its body raised.
C13_JobRunCompletedOnError ==
    \A s \in Slots :
        (execs[s].pc = "done" /\ execs[s].row # 0 /\ execs[s].ended # "killed")
            => /\ job_runs[execs[s].row].status \in {"success", "failed"}
               /\ job_runs[execs[s].row].completed_at # Null

\* C14: every execution of a scheduled task has written a JobRun row.
C14_EveryTaskWritesJobRun ==
    \A s \in Slots :
        (execs[s].pc # "idle" /\ execs[s].task \in ScheduledJobs)
            => /\ execs[s].row \in DOMAIN job_runs
               /\ job_runs[execs[s].row].job_name = execs[s].task

\* C15: a run killed at its hard time limit leaves its JobRun row failed,
\* not running.
C15_KilledRunIsFailed ==
    \A s \in Slots :
        (execs[s].pc = "done" /\ execs[s].row # 0 /\ execs[s].ended = "killed")
            => job_runs[execs[s].row].status = "failed"

(***************************************************************************)
(* Discovery: MarketDiscoveryService.discover_all inside the task's        *)
(* try / except / finally.  Each stage executes its upserts in the         *)
(* session's transaction; entities holds what is committed, pending what   *)
(* is executed and not yet committed.                                      *)
(***************************************************************************)
but_dc == <<sn_vars, jb_vars, cl_vars, sc_vars, ext_vars>>

\* the steps of discover_all in order; events are listed in batches of 20
\* competitions, here two batches
DiscoverySteps ==
    <<"sports", "competitions", "events_batch_1", "events_batch_2", "markets", "runners",
      "stale_events">>

\* what a step upserts
written_by(step) ==
    IF step \in {"events_batch_1", "events_batch_2"} THEN "events" ELSE step

\* the steps that begin with a call to the exchange
calls_exchange(step) ==
    step \in {"competitions", "events_batch_1", "events_batch_2", "markets"}

\* the steps that end with  await self.session.commit()
commits_after(step) == step # "events_batch_1"

step_after(step) ==
    IF step = "stale_events" THEN "finally"
    ELSE LET i == CHOOSE k \in DOMAIN DiscoverySteps : DiscoverySteps[k] = step
         IN DiscoverySteps[i + 1]

\* _discover_markets_async up to discover_all: the JobRun is committed
discover_markets ==
    /\ discovery.pc \in {"idle", "done"}
    /\ discovery' = [pc |-> "sports", pending |-> {}, failed |-> FALSE,
                     before |-> entities, job |-> "running"]
    /\ UNCHANGED <<entities, trade_vars, but_dc>>

\* one step of discover_all; exchange_ok is whether its call to the exchange
\* succeeds, and written whether the step had rows to upsert
discover_step(exchange_ok, written) ==
    /\ discovery.pc \in {DiscoverySteps[k] : k \in DOMAIN DiscoverySteps}
    /\ LET step == discovery.pc
           pending == IF written THEN discovery.pending \cup {written_by(step)}
                      ELSE discovery.pending
       IN IF calls_exchange(step) /\ ~exchange_ok
          THEN /\ discovery' = [discovery EXCEPT !.pc = "finally", !.failed = TRUE]
               /\ UNCHANGED entities
          ELSE IF commits_after(step)
          THEN /\ entities' = entities \cup pending
               /\ discovery' = [discovery EXCEPT !.pc = step_after(step), !.pending = {}]
          ELSE /\ discovery' = [discovery EXCEPT !.pc = step_after(step),
                                                 !.pending = pending]
               /\ UNCHANGED entities
    /\ UNCHANGED <<trade_vars, but_dc>>

\* finally: the JobRun is updated and the session committed, which also
\* commits whatever the transaction holds
discover_finally ==
    /\ discovery.pc = "finally"
    /\ entities' = entities \cup discovery.pending
    /\ discovery' = [discovery EXCEPT !.pc = "done", !.pending = {},
                                      !.job = IF discovery.failed THEN "failed"
                                              ELSE "success"]
    /\ UNCHANGED <<trade_vars, but_dc>>

NextDiscovery ==
    \/ discover_markets
    \/ \E exchange_ok, written \in BOOLEAN : discover_step(exchange_ok, written)
    \/ discover_finally

SpecDiscovery == Init /\ [][NextDiscovery]_vars

\* C16: the writes of one run are a single transaction: a run that failed
\* part-way leaves none of its entity writes persisted.
C16_FailedRunWritesNothing ==
    (discovery.pc = "done" /\ discovery.failed) => entities = discovery.before

(***************************************************************************)
(* Pre-start capture: capture_closing_data over one market whose event     *)
(* starts within the next 15 minutes.  pre_start.snapshot is the id of the *)
(* market's latest snapshot (0: none yet), pre_start.score its latest      *)
(* total score.                                                            *)
(***************************************************************************)
MaxClosingSnapshots == 3
but_cl == <<sn_vars, jb_vars, dc_vars, sc_vars, ext_vars>>

NewClosingData == [closing_odds |-> Null, minutes_to_start |-> Null, final_score |-> Null]

\* Python truth of an optional number: None and 0 are false
truthy(opt) == opt # Null /\ opt # Some(0)

\* the assignments after the early returns: closing odds from the latest
\* snapshot if there is one, final score from the latest score if there is one
store_closing(row, p) ==
    [closing_odds     |-> IF p.snapshot # 0 THEN Some(p.snapshot) ELSE row.closing_odds,
     minutes_to_start |-> IF p.snapshot # 0 THEN Some(p.minutes) ELSE row.minutes_to_start,
     final_score      |-> IF p.score # Null THEN p.score ELSE row.final_score]

_capture_market_closing(existing, p) ==
    IF existing # Null
    THEN LET row == CHOOSE r \in existing : TRUE
         IN IF row.closing_odds # Null /\ truthy(row.final_score)
            THEN existing
            ELSE IF truthy(row.minutes_to_start)
                    /\ \A held \in row.minutes_to_start : p.minutes >= held
            THEN existing
            ELSE Some(store_closing(row, p))
    ELSE Some(store_closing(NewClosingData, p))

\* the later capture wins: kept only when strictly closer to kickoff
closer_capture(seen, p) ==
    IF p.snapshot = 0 THEN seen
    ELSE IF seen # Null /\ \A c \in seen : c.minutes <= p.minutes THEN seen
    ELSE Some([minutes |-> p.minutes, snapshot |-> p.snapshot])

\* a minute passes towards kickoff
minute_passes ==
    /\ pre_start.minutes > 0
    /\ pre_start' = [pre_start EXCEPT !.minutes = @ - 1]
    /\ UNCHANGED <<closing_row, closest_capture, trade_vars, but_cl>>

\* the snapshot task stores a further snapshot of the market
next_snapshot ==
    /\ pre_start.snapshot < MaxClosingSnapshots
    /\ pre_start' = [pre_start EXCEPT !.snapshot = @ + 1]
    /\ UNCHANGED <<closing_row, closest_capture, trade_vars, but_cl>>

\* the scoring task stores a further score of the market
next_score(total) ==
    /\ pre_start.score # Some(total)
    /\ pre_start' = [pre_start EXCEPT !.score = Some(total)]
    /\ UNCHANGED <<closing_row, closest_capture, trade_vars, but_cl>>

\* one run of capture_closing_data: the market is in the window
capture_closing_data ==
    /\ closing_row' = _capture_market_closing(closing_row, pre_start)
    /\ closest_capture' = closer_capture(closest_capture, pre_start)
    /\ UNCHANGED <<pre_start, trade_vars, but_cl>>

NextClosing ==
    \/ minute_passes
    \/ next_snapshot
    \/ \E total \in {0, 4500} : next_score(total)
    \/ capture_closing_data

SpecClosing == Init /\ [][NextClosing]_vars

\* C17: after any sequence of pre-start capture runs the ClosingData holds
\* the closing odds and minutes_to_start of the run made closest to kickoff.
C17_ClosestCaptureKept ==
    closest_capture # Null =>
        /\ closing_row # Null
        /\ \A c \in closest_capture : \A row \in closing_row :
              /\ row.minutes_to_start = Some(c.minutes)
              /\ row.closing_odds = Some(c.snapshot)

(***************************************************************************)
(* Scoring engine: ScoringEngine with the fallback configuration.          *)
(* Fixed point: spread in tenths of a tick, volatility in 1e-4, update     *)
(* rate in tenths per minute, depth and volume in whole units; normalised  *)
(* values in 1e-4, which is also a score in hundredths of a point.  The    *)
(* sampled inputs are ones on which the divisions below are exact.         *)
(***************************************************************************)
but_sc == <<sn_vars, jb_vars, dc_vars, cl_vars, ext_vars>>

One == 100 * 100

w_spread == 25
w_volatility == 25
w_update == 15
w_depth == 20
w_volume == 15

clamp(value, min_val, max_val) == Max(min_val, Min(value, max_val))

\* round(x, 2) of the quotient n / d expressed in hundredths: to nearest,
\* ties to even
RoundHalfEven(n, d) ==
    LET q == n \div d
        r == n % d
    IN IF 2 * r < d THEN q
       ELSE IF 2 * r > d THEN q + 1
       ELSE IF q % 2 = 0 THEN q ELSE q + 1

\* min_ticks 2, sweet_spot_max 8, max_ticks 12
f_spread(spread_ticks) ==
    IF spread_ticks < 20 THEN (spread_ticks * 3 * One) \div (20 * 10)
    ELSE IF spread_ticks <= 80 THEN (3 * One) \div 10 + ((spread_ticks - 20) * 7 * One) \div (60 * 10)
    ELSE Max(0, One - ((spread_ticks - 80) * One) \div 40)

\* target 0.04, max 0.12
f_volatility(volatility) ==
    IF volatility <= 0 THEN 0
    ELSE IF volatility < 400 THEN (volatility * One) \div 400
    ELSE Max(0, One - ((volatility - 400) * One) \div 800)

RECURSIVE log2(_)
log2(n) == IF n <= 1 THEN 0 ELSE 1 + log2(n \div 2)

\* min 0.2, max 3.0; log(1 + rate) / log(1 + 3), for 1 + rate a power of two
f_update(update_rate) ==
    IF update_rate <= 0 THEN 0
    ELSE IF update_rate < 2 THEN (update_rate * 3 * One) \div (2 * 10)
    ELSE clamp((log2((10 + update_rate) \div 10) * One) \div 2, 0, One)

\* min 150, optimal 1500, max 8000
f_depth(depth) ==
    IF depth < 150 THEN 0
    ELSE IF depth <= 1500 THEN ((depth - 150) * One) \div 1350
    ELSE Max((7 * One) \div 10, One - ((depth - 1500) * 3 * One) \div (6500 * 10))

\* threshold 30000, max 200000, hard_cap 500000
f_volume(volume) ==
    IF volume <= 30000 THEN 0
    ELSE IF volume >= 500000 THEN One
    ELSE clamp(((volume - 30000) * One) \div 170000, 0, One)

\* check_guards without the snapshot-count guard
check_guards_no_snapshots(m) ==
    (IF m.depth < 100 THEN <<"depth_below_100">> ELSE <<>>)
    \o (IF m.spread_ticks > 200 THEN <<"spread_above_20">> ELSE <<>>)
    \o (IF m.volume > 500000 THEN <<"volume_above_500000">> ELSE <<>>)

\* absolute_min_depth 100, absolute_max_spread_ticks 20,
\* min_snapshots_required 5, volume hard_cap 500000
check_guards(m) ==
    (IF m.depth < 100 THEN <<"depth_below_100">> ELSE <<>>)
    \o (IF m.spread_ticks > 200 THEN <<"spread_above_20">> ELSE <<>>)
    \o (IF m.snapshot_count < 5 THEN <<"snapshots_below_5">> ELSE <<>>)
    \o (IF m.volume > 500000 THEN <<"volume_above_500000">> ELSE <<>>)

ExploitabilityResult(total, spread, volatility, update, depth, volume, guards) ==
    [total_score |-> total, spread_score |-> spread, volatility_score |-> volatility,
     update_score |-> update, depth_score |-> depth, volume_penalty |-> volume,
     guards_failed |-> guards]

calculate_score(m) ==
    IF check_guards(m) # <<>>
    THEN ExploitabilityResult(0, 0, 0, 0, 0, 0, Some(check_guards(m)))
    ELSE LET raw_score == w_spread * f_spread(m.spread_ticks)
                          + w_volatility * f_volatility(m.volatility)
                          + w_update * f_update(m.update_rate)
                          + w_depth * f_depth(m.depth)
                          - w_volume * f_volume(m.volume)
         IN ExploitabilityResult(
                RoundHalfEven(clamp(raw_score, 0, 100 * One), 100),
                RoundHalfEven(f_spread(m.spread_ticks), 1),
                RoundHalfEven(f_volatility(m.volatility), 1),
                RoundHalfEven(f_update(m.update_rate), 1),
                RoundHalfEven(f_depth(m.depth), 1),
                RoundHalfEven(f_volume(m.volume), 1),
                Null)

(***************************************************************************)
(* The scorer applied to sampled metrics, and the scoring task's loop pass *)
(* that stores the result as an ExploitabilityScore row.                   *)
(***************************************************************************)
MaxScores == 2
ActiveConfigVersion == 1

SampledMetrics ==
    [spread_ticks   : {-10, 10, 50, 100, 200, 210},
     volatility     : {-400, 0, 200, 800, 100000},
     update_rate    : {-10, 0, 1, 10, 10230},
     depth          : {-1000, 99, 100, 825, 4750, 50000},
     volume         : {-15000, 0, 115000, 500000, 500001},
     snapshot_count : {4, 5, 10}]

\* ExploitabilityScore(market_id=..., scored_at=now, ..., total_score=...);
\* config_version_id is not passed
ExploitabilityScore(r, t) ==
    [market_id |-> 1, scored_at |-> t, total_score |-> r.total_score,
     config_version_id |-> Null]

InitScoring ==
    /\ now = 0
    /\ config = [enabled |-> TRUE, auto_activate_phase2 |-> TRUE,
                 live_trading_enabled |-> FALSE]
    /\ closing = StoredClosing
    /\ runner_status = [r \in Runners |-> "ACTIVE"]
    /\ decisions = <<>>
    /\ runs = [s \in Slots |-> IdleRun]
    /\ rl_idle /\ gw_idle /\ sn_idle /\ jb_idle /\ dc_idle /\ cl_idle /\ ext_idle
    /\ metrics \in SampledMetrics
    /\ scored = Null
    /\ scores = <<>>

\* engine.calculate_score(metrics)
score_metrics ==
    /\ scored = Null
    /\ scored' = Some(calculate_score(metrics))
    /\ UNCHANGED <<metrics, scores, trade_vars, but_sc>>

\* one pass of the scoring task's loop over (market, profile): profiles with
\* fewer than 5 snapshots are skipped, the others scored and stored
score_markets ==
    /\ Len(scores) < MaxScores
    /\ IF metrics.snapshot_count < 5
       THEN UNCHANGED <<scored, scores>>
       ELSE /\ scored' = Some(calculate_score(metrics))
            /\ scores' = Append(scores, ExploitabilityScore(calculate_score(metrics), clock))
    /\ UNCHANGED <<metrics, trade_vars, but_sc>>

NextScoring ==
    \/ score_metrics
    \/ score_markets

SpecScoring == InitScoring /\ [][NextScoring]_vars

\* C18: every Score row references the ConfigVersion active when it was
\* scored; the reference is never null.
C18_ScoreReferencesConfigVersion ==
    \A i \in DOMAIN scores : scores[i].config_version_id = Some(ActiveConfigVersion)

\* C19: for every metrics record the total score and each of the five
\* component scores lie within [0, 100].
C19_ScoresWithinRange ==
    \A r \in scored :
        /\ r.total_score \in 0..(100 * 100)
        /\ r.spread_score \in 0..(100 * 100)
        /\ r.volatility_score \in 0..(100 * 100)
        /\ r.update_score \in 0..(100 * 100)
        /\ r.depth_score \in 0..(100 * 100)
        /\ r.volume_penalty \in 0..(100 * 100)

\* the guards as the claim lists them
guards_in_force(m) ==
    (IF m.depth < 100 THEN {"depth_below_100"} ELSE {})
    \cup (IF m.spread_ticks > 20 * 10 THEN {"spread_above_20"} ELSE {})
    \cup (IF m.snapshot_count < 5 THEN {"snapshots_below_5"} ELSE {})
    \cup (IF m.volume > 500000 THEN {"volume_above_500000"} ELSE {})

\* C20: if any guard fails the scorer returns total 0, all components 0 and
\* a non-empty guards_failed naming exactly the failed guards; if none
\* fails, no guard is reported.
C20_GuardsZeroTheScore ==
    \A r \in scored :
        IF guards_in_force(metrics) # {}
        THEN /\ r.total_score = 0 /\ r.spread_score = 0 /\ r.volatility_score = 0
             /\ r.update_score = 0 /\ r.depth_score = 0 /\ r.volume_penalty = 0
             /\ \E names \in r.guards_failed :
                   /\ names # <<>>
                   /\ {names[i] : i \in DOMAIN names} = guards_in_force(metrics)
                   /\ Len(names) = Cardinality(guards_in_force(metrics))
        ELSE r.guards_failed = Null

C20_Witness ==
    /\ \E r \in scored : \E names \in r.guards_failed : Len(names) = 2
    /\ metrics.snapshot_count < 5
    /\ metrics.volume > 500000

(***************************************************************************)
(* Discovery over the stored catalogue: MarketDiscoveryService.discover_all *)
(* with every call to the exchange succeeding.  Instants are hours.  A     *)
(* name is a sequence of characters.  A row's primary key is modelled by   *)
(* the external id it is unique on.  Competitions carry name and enabled,  *)
(* events competition_id, scheduled_start and status; the columns no       *)
(* statement here reads or changes after the insert are left out.          *)
(***************************************************************************)
but_cat == <<sn_vars, jb_vars, dc_vars, cl_vars, sc_vars, he_vars, bt_vars, bk_vars, au_vars, late_vars>>

MaxNameLen == 3
Alphabet == {"u", "U", "2"}
CompetitionNames ==
    UNION {[1..n -> Alphabet] : n \in 1..MaxNameLen}

\* config["global"]["hard_exclusions"]["competition_patterns"]
competition_patterns == <<<<"U", "2">>>>

Competitions == {1, 2}
CompetitionOrder == <<1, 2>>
Events == {1, 2}
EventOrder == <<1, 2>>
\* when the markets of an event start on the exchange
market_start(e) == IF e = 1 THEN 2 ELSE 75
DiscoveryInstants == {0, 1, 7}

batch_size == 20
lookahead_hours == 72
stale_hours == 4

\* str.lower()
lower_char(c) == IF c = "U" THEN "u" ELSE c
lower(name) == [i \in DOMAIN name |-> lower_char(name[i])]

\* pattern in name
contains(name, pattern) ==
    \E i \in 1..(Len(name) - Len(pattern) + 1) :
        SubSeq(name, i, i + Len(pattern) - 1) = pattern

should_exclude_competition_cased(competition_name, patterns) ==
    \E k \in DOMAIN patterns : contains(competition_name, patterns[k])

should_exclude_competition(competition_name, patterns) ==
    LET name_lower == lower(competition_name)
    IN \E k \in DOMAIN patterns : contains(name_lower, lower(patterns[k]))

\* insert ... on conflict (betfair_id) do update set ...
upsert(table, id, inserted, updated(_)) ==
    IF id \in DOMAIN table
    THEN [table EXCEPT ![id] = updated(@)]
    ELSE (id :> inserted) @@ table

\* the competitions of a listing, in its order
_discover_competitions(db, up) ==
    LET enabled(c) == ~should_exclude_competition(up.competitions[c], competition_patterns)
        row(c) == [name |-> up.competitions[c], enabled |-> enabled(c)]
        set_(c, old) == [old EXCEPT !.name = up.competitions[c], !.enabled = enabled(c)]
        step[k \in 0..Len(CompetitionOrder)] ==
            IF k = 0 THEN db.competitions
            ELSE LET c == CompetitionOrder[k]
                 IN upsert(step[k - 1], c, row(c), LAMBDA old : set_(c, old))
    IN [db EXCEPT !.competitions = step[Len(CompetitionOrder)]]

\* the competitions returned with enabled = True, in order
enabled_comps(db) ==
    SelectSeq(CompetitionOrder, LAMBDA c : db.competitions[c].enabled)

\* the batch of comp_ids that holds position i
batch_of(comp_ids, i) ==
    LET first == ((i - 1) \div batch_size) * batch_size + 1
    IN SubSeq(comp_ids, first, Min(first + batch_size - 1, Len(comp_ids)))

\* listEvents with competitionIds = batch and marketStartTime in [from, to]
list_events(up, batch, from_time, to_time) ==
    {e \in Events :
        /\ \E k \in DOMAIN batch : batch[k] = up.events[e].competition
        /\ market_start(e) >= from_time
        /\ market_start(e) <= to_time}

\* _discover_events: every event of a batch is given the first competition
\* of  competitions  whose id is in the batch; an event without open date
\* is stored as starting now
_discover_events(db, up, t) ==
    LET comp_ids == enabled_comps(db)
        position(e) == CHOOSE i \in DOMAIN comp_ids : comp_ids[i] = up.events[e].competition
        listed(e) ==
            /\ \E i \in DOMAIN comp_ids : comp_ids[i] = up.events[e].competition
            /\ e \in list_events(up, batch_of(comp_ids, position(e)), t, t + lookahead_hours)
        comp_db_id(e) ==
            LET batch == batch_of(comp_ids, position(e))
            IN comp_ids[CHOOSE i \in DOMAIN comp_ids :
                   /\ \E k \in DOMAIN batch : batch[k] = comp_ids[i]
                   /\ \A j \in 1..(i - 1) : \A k \in DOMAIN batch : batch[k] # comp_ids[j]]
        start(e) == IF up.events[e].open_date = Null THEN t
                    ELSE CHOOSE d \in up.events[e].open_date : TRUE
        row(e) == [competition_id |-> comp_db_id(e), scheduled_start |-> start(e),
                   status |-> "SCHEDULED"]
        step[k \in 0..Len(EventOrder)] ==
            IF k = 0 THEN db.events
            ELSE LET e == EventOrder[k]
                 IN IF listed(e)
                    THEN upsert(step[k - 1], e, row(e),
                                LAMBDA old : [old EXCEPT !.scheduled_start = start(e)])
                    ELSE step[k - 1]
    IN [db EXCEPT !.events = step[Len(EventOrder)]]

\* _mark_stale_events
_mark_stale_events(db, t) ==
    [db EXCEPT !.events =
        [e \in DOMAIN db.events |->
            IF db.events[e].scheduled_start < t - stale_hours
               /\ db.events[e].status = "SCHEDULED"
            THEN [db.events[e] EXCEPT !.status = "CLOSED"]
            ELSE db.events[e]]]

\* discover_all at clock reading t; every run reads a later clock than the
\* one before it.  Markets and runners are not followed here.
discover_all(t) ==
    /\ \A at \in discovered.at : t > at
    /\ catalogue' = _mark_stale_events(
                        _discover_events(_discover_competitions(catalogue, upstream),
                                         upstream, t), t)
    /\ discovered' = [runs |-> discovered.runs + 1, at |-> Some(t)]
    /\ UNCHANGED <<upstream, trade_vars, but_cat>>

InitCatalogue ==
    /\ now = 0
    /\ config = [enabled |-> TRUE, auto_activate_phase2 |-> TRUE,
                 live_trading_enabled |-> FALSE]
    /\ closing = StoredClosing
    /\ runner_status = [r \in Runners |-> "ACTIVE"]
    /\ decisions = <<>>
    /\ runs = [s \in Slots |-> IdleRun]
    /\ rl_idle /\ gw_idle /\ sn_idle /\ jb_idle /\ dc_idle /\ cl_idle /\ sc_idle /\ he_idle /\ bt_idle /\ bk_idle /\ au_idle /\ late_idle
    /\ \E names \in [Competitions -> CompetitionNames], given \in [Events -> BOOLEAN] :
          upstream = [competitions |-> names,
                      events |-> [e \in Events |->
                          [competition |-> e,
                           open_date |-> IF given[e] THEN Some(market_start(e))
                                         ELSE Null]]]
    /\ catalogue = EmptyCatalogue
    /\ discovered = [runs |-> 0, at |-> Null]

NextCatalogue == \E t \in DiscoveryInstants : discover_all(t)

SpecCatalogue == InitCatalogue /\ [][NextCatalogue]_vars

\* the name holds the pattern when case is ignored
contains_ignoring_case(name, pattern) ==
    \E i \in 1..(Len(name) - Len(pattern) + 1) :
        \A k \in 1..Len(pattern) :
            lower_char(name[i + k - 1]) = lower_char(pattern[k])

C22_SecondRunChangesNothing ==
    [][(discovered.runs >= 1 /\ discovered'.runs = discovered.runs + 1)
          => catalogue' = catalogue]_vars

\* C38: every event stored by discovery has the competition_id of the
\* competition it belongs to on the exchange, also when one batch request
\* lists the events of several competitions.
C38_EventUnderItsCompetition ==
    \A e \in DOMAIN catalogue.events :
        catalogue.events[e].competition_id = upstream.events[e].competition

(***************************************************************************)
(* Hypothesis engine: one row of the momentum query, for one runner, and   *)
(* one hypothesis.  Prices are hundredths, matched volume whole pounds.  A *)
(* percentage computed by a Decimal division is the pair                   *)
(* <<numerator, denominator>> with a positive denominator.  A key absent   *)
(* from entry_criteria is Null.                                            *)
(***************************************************************************)
but_he == <<sn_vars, jb_vars, dc_vars, cl_vars, sc_vars, cat_vars, bt_vars, bk_vars, au_vars, late_vars>>

Abs(x) == IF x < 0 THEN -x ELSE x

\* evaluate_hypotheses calls find_momentum_signals(min_change_pct=2.0)
min_change_pct == 2

\* criteria.get(key, default)
get(value, default) == IF value = Null THEN default ELSE CHOOSE v \in value : TRUE

\* Decimal truthiness of an Optional[Decimal] percentage
truthy_change(change) == \E c \in change : c[1] # 0

\* a or b
or_else(a, b) == IF truthy_change(a) THEN a ELSE b

\* _calc_price_change: ((current - old) / old) * 100
_calc_price_change(current_price, historical) ==
    IF historical = Null THEN Null
    ELSE LET old_price == CHOOSE o \in historical : TRUE
         IN IF old_price <= 0 THEN Null
            ELSE Some(<<(current_price - old_price) * 100, old_price>>)

\* _extract_momentum_signals for one ladder runner: the MomentumSignal
\* appended, or Null when the runner is skipped.  min_change is
\* min_change_pct / 100.0 and is compared with the change in percent.
_extract_momentum_signals(row, change_pct) ==
    LET back_price == row.back
        spread_pct == IF row.lay = Null THEN <<2, 1>>
                      ELSE <<(get(row.lay, 0) - back_price) * 100, back_price>>
        change_30m == _calc_price_change(back_price, row.ladder_30m)
        change_1h == _calc_price_change(back_price, row.ladder_1h)
        change_2h == _calc_price_change(back_price, row.ladder_2h)
        primary_change == or_else(or_else(change_2h, change_1h), change_30m)
    IN IF back_price <= 0 THEN Null
       ELSE IF back_price < 110 \/ back_price > 5000 THEN Null
       ELSE IF primary_change = Null THEN Null
       ELSE LET c == CHOOSE x \in primary_change : TRUE
            IN IF Abs(c[1]) * 100 < change_pct * c[2] THEN Null
               ELSE IF Abs(c[1]) > 100 * c[2] THEN Null
               ELSE Some([back_price |-> back_price, spread_pct |-> spread_pct,
                          total_matched |-> row.total_matched,
                          market_type |-> row.market_type,
                          competition_id |-> row.competition_id,
                          minutes_to_start |-> row.minutes_to_start,
                          change_30m |-> change_30m, change_1h |-> change_1h,
                          change_2h |-> change_2h,
                          exploitability_score |->
                              IF row.total_score # Null /\ row.total_score # Some(0)
                              THEN row.total_score ELSE Null])

\* the change matches_hypothesis selects for a window
window_change(signal, change_window) ==
    IF change_window <= 30 THEN signal.change_30m
    ELSE IF change_window <= 60 THEN or_else(signal.change_1h, signal.change_30m)
    ELSE or_else(or_else(signal.change_2h, signal.change_1h), signal.change_30m)

\* matches_hypothesis: Null for None, else the HypothesisMatch, of which the
\* decision side is kept
matches_hypothesis(h, signal) ==
    LET criteria == h.entry_criteria
        min_score == get(criteria.min_score, 0)
        min_minutes == get(criteria.min_minutes_to_start, 0)
        max_minutes == get(criteria.max_minutes_to_start, 1440)
        max_spread == get(criteria.max_spread_pct, 10)
        min_matched == get(criteria.min_total_matched, 0)
        market_types == get(criteria.market_type_filter, {})
        competition_filter == get(criteria.competition_filter, {})
        price_change_direction == criteria.price_change_direction
        min_change == get(criteria.min_price_change_pct, 0)
        change_window == get(criteria.price_change_window_minutes, 60)
        change == window_change(signal, change_window)
        num == (CHOOSE c \in change : TRUE)[1]
        den == (CHOOSE c \in change : TRUE)[2]
        decision_type ==
            IF price_change_direction = Some("steaming") THEN "BACK"
            ELSE IF price_change_direction = Some("drifting")
                    /\ h.selection_logic = "contrarian" THEN "LAY"
            ELSE h.decision_type
    IN IF signal.exploitability_score # Null
          /\ get(signal.exploitability_score, 0) < min_score THEN Null
       ELSE IF signal.exploitability_score = Null /\ min_score > 0 THEN Null
       ELSE IF signal.minutes_to_start < min_minutes
               \/ signal.minutes_to_start > max_minutes THEN Null
       ELSE IF signal.spread_pct[1] > max_spread * signal.spread_pct[2] THEN Null
       ELSE IF signal.total_matched < min_matched THEN Null
       ELSE IF market_types # {} /\ signal.market_type \notin market_types THEN Null
       ELSE IF competition_filter # {} /\ signal.competition_id \notin competition_filter
            THEN Null
       ELSE IF change = Null /\ min_change > 0 THEN Null
       ELSE IF change # Null /\ price_change_direction = Some("steaming")
               /\ (num >= 0 \/ Abs(num) < min_change * den) THEN Null
       ELSE IF change # Null /\ price_change_direction = Some("drifting")
               /\ (num <= 0 \/ num < min_change * den) THEN Null
       ELSE IF change # Null /\ price_change_direction \notin {Some("steaming"), Some("drifting")}
               /\ min_change > 0 /\ Abs(num) < min_change * den THEN Null
       ELSE Some([decision_type |-> decision_type])

\* an entry_criteria dict with no key
NoCriteria ==
    [min_score |-> Null, min_price_change_pct |-> Null, price_change_direction |-> Null,
     price_change_window_minutes |-> Null, min_minutes_to_start |-> Null,
     max_minutes_to_start |-> Null, min_total_matched |-> Null,
     max_total_matched |-> Null, max_spread_pct |-> Null, market_type_filter |-> Null,
     competition_filter |-> Null, min_price |-> Null, max_price |-> Null]

\* the window, liquidity floor and momentum keys every default hypothesis has
window_criteria(score, change, direction, matched, spread, types) ==
    [NoCriteria EXCEPT !.min_score = Some(score), !.min_price_change_pct = Some(change),
                       !.price_change_direction = direction,
                       !.price_change_window_minutes = Some(IF direction = Null THEN 0 ELSE 120),
                       !.min_minutes_to_start = Some(360), !.max_minutes_to_start = Some(1440),
                       !.min_total_matched = Some(matched), !.max_spread_pct = Some(spread),
                       !.market_type_filter = Some(types)]

\* rows of trading_hypotheses: five of DEFAULT_HYPOTHESES, and one created
\* through POST /hypotheses with the request model's defaults
TradingHypotheses ==
    { [name |-> "steam_follower", selection_logic |-> "momentum", decision_type |-> "BACK",
       entry_criteria |-> window_criteria(30, 5, Some("steaming"), 5000, 5,
                                          {"MATCH_ODDS", "OVER_UNDER_25", "OVER_UNDER_15"})],
      [name |-> "drift_fader", selection_logic |-> "contrarian", decision_type |-> "LAY",
       entry_criteria |-> window_criteria(40, 8, Some("drifting"), 5000, 5, {"MATCH_ODDS"})],
      [name |-> "score_based_classic", selection_logic |-> "score_based",
       decision_type |-> "BACK",
       entry_criteria |-> window_criteria(50, 0, Null, 5000, 4,
                                          {"MATCH_ODDS", "OVER_UNDER_25"})],
      [name |-> "correct_score_value", selection_logic |-> "score_based",
       decision_type |-> "BACK",
       entry_criteria |-> [window_criteria(35, 0, Null, 1000, 8, {"CORRECT_SCORE"})
                               EXCEPT !.min_price = Some(300), !.max_price = Some(3000)]],
      [name |-> "shallow_market_edge", selection_logic |-> "score_based",
       decision_type |-> "BACK",
       entry_criteria |-> [window_criteria(45, 0, Null, 1000, 7,
                                           {"MATCH_ODDS", "OVER_UNDER_25"})
                               EXCEPT !.max_total_matched = Some(5000)]],
      [name |-> "lay_the_steam", selection_logic |-> "HIGHEST_SCORE", decision_type |-> "LAY",
       entry_criteria |-> [NoCriteria EXCEPT !.min_score = Some(30),
                               !.min_price_change_pct = Some(0),
                               !.price_change_direction = Some("steaming"),
                               !.min_minutes_to_start = Some(60),
                               !.max_minutes_to_start = Some(1440),
                               !.min_price = Some(110), !.max_price = Some(1000)]] }

\* rows the momentum query can return for a runner
QueryRows ==
    [back : {109, 110, 300, 5000, 5001},
     lay : {Null, Some(330)},
     ladder_30m : {Null, Some(400)},
     ladder_1h : {Null, Some(250)},
     ladder_2h : {Null, Some(300), Some(297), Some(400), Some(250), Some(150), Some(149)},
     total_matched : {4000, 8000},
     market_type : {"MATCH_ODDS", "CORRECT_SCORE"},
     competition_id : {1},
     minutes_to_start : {600},
     total_score : {Null, Some(45)}]

InitEngine ==
    /\ now = 0
    /\ config = [enabled |-> TRUE, auto_activate_phase2 |-> TRUE,
                 live_trading_enabled |-> FALSE]
    /\ closing = StoredClosing
    /\ runner_status = [r \in Runners |-> "ACTIVE"]
    /\ decisions = <<>>
    /\ runs = [s \in Slots |-> IdleRun]
    /\ rl_idle /\ gw_idle /\ sn_idle /\ jb_idle /\ dc_idle /\ cl_idle /\ sc_idle /\ cat_idle /\ bt_idle /\ bk_idle /\ au_idle /\ late_idle
    /\ \E row \in QueryRows, h \in TradingHypotheses :
          /\ row.lay = Null \/ row.back < 330
          /\ engine_in = [row |-> Some(row), hypothesis |-> Some(h)]
    /\ engine = IdleEngine

\* find_momentum_signals: the signals of the rows
find_momentum_signals ==
    /\ engine.pc = "idle"
    /\ \E row \in engine_in.row :
          LET signal == _extract_momentum_signals(row, min_change_pct)
          IN engine' = [engine EXCEPT !.pc = IF signal = Null THEN "done" ELSE "signals",
                                      !.signal = signal]
    /\ UNCHANGED <<engine_in, trade_vars, but_he>>

\* evaluate_hypotheses: for hypothesis in hypotheses: for signal in signals
evaluate_hypotheses ==
    /\ engine.pc = "signals"
    /\ \E h \in engine_in.hypothesis, signal \in engine.signal :
          engine' = [engine EXCEPT !.pc = "matched", !.match = matches_hypothesis(h, signal)]
    /\ UNCHANGED <<engine_in, trade_vars, but_he>>

NextEngine ==
    \/ find_momentum_signals
    \/ evaluate_hypotheses

SpecEngine == InitEngine /\ [][NextEngine]_vars

\* a percentage held as a pair, against a whole number of percent
pct_at_least(p, k) == p[1] >= k * p[2]
pct_at_most(p, k) == p[1] <= k * p[2]

\* the clauses of an entry-criteria record, each holding when its key is
\* absent.  A momentum clause is read against the change of its window; a
\* hypothesis that asks for no movement (no direction, minimum 0) has none.
clauses_hold(criteria, signal) ==
    LET change == window_change(signal, get(criteria.price_change_window_minutes, 60))
        size == [c \in change |-> <<Abs(c[1]), c[2]>>]
    IN /\ \A k \in criteria.min_score :
             k > 0 => \E sc \in signal.exploitability_score : sc >= k
       /\ \A k \in criteria.min_score :
             \A sc \in signal.exploitability_score : sc >= k
       /\ \A k \in criteria.min_minutes_to_start : signal.minutes_to_start >= k
       /\ \A k \in criteria.max_minutes_to_start : signal.minutes_to_start <= k
       /\ \A k \in criteria.max_spread_pct : pct_at_most(signal.spread_pct, k)
       /\ \A k \in criteria.min_total_matched : signal.total_matched >= k
       /\ \A k \in criteria.max_total_matched : signal.total_matched <= k
       /\ \A types \in criteria.market_type_filter : signal.market_type \in types
       /\ \A ids \in criteria.competition_filter : signal.competition_id \in ids
       /\ \A k \in criteria.min_price_change_pct :
             k > 0 => \E c \in change : pct_at_least(size[c], k)
       /\ criteria.price_change_direction = Some("steaming") => \A c \in change : c[1] < 0
       /\ criteria.price_change_direction = Some("drifting") => \A c \in change : c[1] > 0
       /\ \A k \in criteria.min_price : signal.back_price >= k
       /\ \A k \in criteria.max_price : signal.back_price <= k

\* C23: a signal matches a hypothesis iff every clause present in its entry
\* criteria holds, the optional min_price, max_price and max_total_matched
\* bounds included.
C23_MatchIffAllClausesHold ==
    engine.pc = "matched" =>
        \A h \in engine_in.hypothesis : \A signal \in engine.signal :
            (engine.match # Null) <=> clauses_hold(h.entry_criteria, signal)

\* C24: the side of a match is the hypothesis's decision side, except BACK
\* for steaming with selection_logic momentum and LAY for drifting with
\* selection_logic contrarian.
C24_SideFromHypothesis ==
    \A m \in engine.match : \A h \in engine_in.hypothesis :
        m.decision_type =
            IF h.entry_criteria.price_change_direction = Some("steaming")
               /\ h.selection_logic = "momentum" THEN "BACK"
            ELSE IF h.entry_criteria.price_change_direction = Some("drifting")
                    /\ h.selection_logic = "contrarian" THEN "LAY"
            ELSE h.decision_type

\* C25: a signal is emitted for a runner only if the absolute primary price
\* change in percent is at least the configured minimum change percentage
\* and at most 100, and the current back price lies in [1.10, 50].
C25_SignalNeedsMinimumChange ==
    \A signal \in engine.signal :
        LET primary == or_else(or_else(signal.change_2h, signal.change_1h),
                               signal.change_30m)
        IN /\ signal.back_price >= 110
           /\ signal.back_price <= 5000
           /\ \E c \in primary :
                 /\ pct_at_least(<<Abs(c[1]), c[2]>>, min_change_pct)
                 /\ pct_at_most(<<Abs(c[1]), c[2]>>, 100)

(***************************************************************************)
(* Celery beat over beat_schedule, in minutes.  Beat sends every entry     *)
(* that is due and then sleeps to the next minute; a worker executes what  *)
(* is sent.  The phase is read from the tables, which stay as they are     *)
(* here.                                                                   *)
(***************************************************************************)
but_bt == <<sn_vars, jb_vars, dc_vars, cl_vars, sc_vars, cat_vars, he_vars, bk_vars, au_vars, late_vars>>

MaxBeat == 60

\* "schedule": seconds / 60, or crontab(minute=..)
schedule(task) ==
    CASE task \in {"capture_closing_data_task", "make_shadow_decisions_task",
                   "capture_closing_prices_task"} -> [every |-> Some(2), minute |-> Null]
      [] task \in {"capture_snapshots", "score_markets"} -> [every |-> Some(5), minute |-> Null]
      [] task \in {"discover_markets", "capture_results_task",
                   "settle_shadow_decisions_task"} -> [every |-> Some(15), minute |-> Null]
      [] task = "capture_event_results_task" -> [every |-> Some(30), minute |-> Null]
      [] task = "compute_daily_profiles" -> [every |-> Null, minute |-> Some(5)]
      [] task = "aggregate_competition_stats" -> [every |-> Null, minute |-> Some(30)]
      [] task = "update_results_from_scores_task" -> [every |-> Null, minute |-> Some(45)]
      [] task = "check_phase_status_task" -> [every |-> Null, minute |-> Some(0)]

is_due(task, b) ==
    \/ \E n \in schedule(task).every : b.time - b.last_run_at[task] >= n
    \/ \E m \in schedule(task).minute : b.time % 60 = m /\ b.last_run_at[task] < b.time

\* the tasks that call evaluate_all_hypotheses
EngineTasks == {"evaluate_hypotheses_task"}

\* beat sends a due entry and a worker executes it; evaluate_hypotheses_task
\* runs the engine when the phase is PHASE2_SHADOW
beat_send(task) ==
    /\ is_due(task, beat)
    /\ beat' = [beat EXCEPT !.last_run_at[task] = beat.time,
                            !.engine_at = IF task \in EngineTasks
                                             /\ get_current_phase = PHASE2_SHADOW
                                          THEN beat.time ELSE @]
    /\ UNCHANGED <<trade_vars, but_bt>>

\* nothing is due: beat sleeps
beat_sleep ==
    /\ beat.time < MaxBeat
    /\ \A task \in ScheduledJobs : ~is_due(task, beat)
    /\ beat' = [beat EXCEPT !.time = @ + 1]
    /\ UNCHANGED <<trade_vars, but_bt>>

InitBeat ==
    /\ now = 0
    /\ config = [enabled |-> TRUE, auto_activate_phase2 |-> TRUE,
                 live_trading_enabled |-> FALSE]
    /\ closing \in {StoredClosing, [StoredClosing EXCEPT !.with_results = min_results]}
    /\ runner_status = [r \in Runners |-> "ACTIVE"]
    /\ decisions = <<>>
    /\ runs = [s \in Slots |-> IdleRun]
    /\ rl_idle /\ gw_idle /\ ing_idle

NextBeat ==
    \/ \E task \in ScheduledJobs : beat_send(task)
    \/ beat_sleep

SpecBeat == InitBeat /\ [][NextBeat]_vars

\* C26: while the phase is PHASE2_SHADOW the hypothesis engine runs every 2
\* minutes: never more than 2 minutes pass without a run of it.
C26_EngineEveryTwoMinutes ==
    get_current_phase = PHASE2_SHADOW => beat.time - beat.engine_at <= 2

(***************************************************************************)
(* Shadow settlement over decisions already stored.  settle_step is one    *)
(* pass of the loop that ends normally; settle_step_fails is a pass whose  *)
(* body raises inside the per-decision try.  An error that is the          *)
(* database's leaves the session's transaction unusable: every later       *)
(* db.get raises and is caught, db.commit() raises, and the outer handler  *)
(* rolls back and re-raises.                                               *)
(***************************************************************************)
SettleStatuses == {"WINNER", "LOSER", "REMOVED", "REMOVED_VACANT"}

\* how a pass of the loop can fail: an exception that is not the
\* database's, or a database error in db.get
StepFailures == {"raised", "db_error"}

\* the stored decisions: one per hypothesis on the market, BACK or LAY
StoredDecisions ==
    {<<ShadowDecision(1, 11, Some(h1), s1), ShadowDecision(1, 12, Some(h2), s2)>> :
        h1 \in {"steam_follower"}, h2 \in {"drift_fader"}, s1 \in {"BACK", "LAY"},
        s2 \in {"BACK", "LAY"}}

\* a run whose loop body raised for the row at idx
settle_step_fails(s, failure) ==
    /\ in_loop(s, "settle")
    /\ runs' = [runs EXCEPT ![s].idx = @ + 1,
                            ![s].failed = @ \cup {runs[s].idx},
                            ![s].pc = IF failure = "db_error" THEN "aborted" ELSE @]
    /\ UNCHANGED <<now, config, closing, runner_status, decisions, rl_vars, gw_vars, ing_vars>>

\* a later pass on the unusable session: db.get raises, the error is counted
settle_step_aborted(s) ==
    /\ runs[s].task = "settle"
    /\ runs[s].pc = "aborted"
    /\ runs[s].idx <= Len(runs[s].work)
    /\ runs' = [runs EXCEPT ![s].idx = @ + 1, ![s].failed = @ \cup {runs[s].idx}]
    /\ UNCHANGED <<now, config, closing, runner_status, decisions, rl_vars, gw_vars, ing_vars>>

\* db.commit() raises; except: await db.rollback(); raise
run_rollback(s) ==
    /\ runs[s].task = "settle"
    /\ runs[s].pc = "aborted"
    /\ runs[s].idx > Len(runs[s].work)
    /\ runs' = [runs EXCEPT ![s] = IdleRun]
    /\ UNCHANGED <<now, config, closing, runner_status, decisions, rl_vars, gw_vars, ing_vars>>

InitSettle ==
    /\ now = 0
    /\ config = [enabled |-> TRUE, auto_activate_phase2 |-> TRUE,
                 live_trading_enabled |-> FALSE]
    /\ closing = [StoredClosing EXCEPT !.with_results = min_results]
    /\ runner_status = [r \in Runners |-> "ACTIVE"]
    /\ decisions \in StoredDecisions
    /\ runs = [s \in Slots |-> IdleRun]
    /\ rl_idle
    /\ gw_idle
    /\ ing_idle

NextSettle ==
    \/ tick
    \/ \E m \in Markets : \E result \in [RunnersOf(m) -> SettleStatuses \cup {"ACTIVE"}] :
          market_result(m, result)
    \/ \E s \in Slots : settle_shadow_decisions_task(s)
    \/ \E s \in Slots : settle_step(s)
    \/ \E s \in Slots, failure \in StepFailures : settle_step_fails(s, failure)
    \/ \E s \in Slots : settle_step_aborted(s)
    \/ \E s \in Slots : run_commit(s)
    \/ \E s \in Slots : run_rollback(s)

SpecSettle == InitSettle /\ [][NextSettle]_vars

\* a settlement run in slot s ends with this step, by commit or by rollback
settle_run_ends(s) ==
    /\ runs[s].task = "settle"
    /\ runs[s].pc \in {"loop", "aborted"}
    /\ runs'[s].pc = "idle"

\* the outcome table of shadow settlement, status by side
outcome_table ==
    [status \in {"WINNER", "LOSER"}, side \in {"BACK", "LAY"} |->
        IF (status = "WINNER") = (side = "BACK") THEN "WIN" ELSE "LOSE"]

\* C28: when a settlement run ends without a failure, every decision it read
\* has the outcome the table gives for the runner status and the side read
\* with it (WINNER/BACK and LOSER/LAY give WIN, WINNER/LAY and LOSER/BACK give
\* LOSE, REMOVED and REMOVED_VACANT give VOID), and with any other status the
\* stored decision is left PENDING and unchanged.
C28_OutcomeByStatusAndSide ==
    [][\A s \in Slots :
          (settle_run_ends(s) /\ runs[s].failed = {}) =>
             \A k \in DOMAIN runs[s].work :
                LET row == runs[s].work[k]
                    before == decisions[row.decision_id]
                    after == decisions'[row.decision_id]
                IN IF row.runner_status \in {"WINNER", "LOSER"}
                   THEN after.outcome = outcome_table[row.runner_status, row.decision_type]
                   ELSE IF row.runner_status \in {"REMOVED", "REMOVED_VACANT"}
                   THEN after.outcome = "VOID"
                   ELSE after = before /\ (row.runner_status = runner_status[row.runner_id]
                                            => after.outcome = "PENDING")]_vars

\* a LAY decision settled WIN on a LOSER and a decision settled VOID on a
\* vacant removal
C28_Witness ==
    /\ \E i \in DOMAIN decisions :
          /\ decisions[i].decision_type = "LAY"
          /\ decisions[i].outcome = "WIN"
          /\ runner_status[decisions[i].runner_id] = "LOSER"
    /\ \E i \in DOMAIN decisions :
          /\ decisions[i].outcome = "VOID"
          /\ runner_status[decisions[i].runner_id] = "REMOVED_VACANT"

\* C29: when a settlement run in which some decision failed ends, every
\* other decision of the run whose runner status was final is stored with
\* an outcome.
C29_OthersSettledAndPersisted ==
    [][\A s \in Slots :
          (settle_run_ends(s) /\ runs[s].failed # {}) =>
             \A k \in DOMAIN runs[s].work :
                (k \notin runs[s].failed /\ runs[s].work[k].runner_status \in SettleStatuses)
                   => decisions'[runs[s].work[k].decision_id].outcome # "PENDING"]_vars

(***************************************************************************)
(* Settlement against the exchange.  The exchange settles a market's       *)
(* runners in its market book; capture_results reads that book and writes  *)
(* closing_data only; the runners table keeps the status discovery         *)
(* inserted.  The scheduled tasks keep running; a run ends within its time  *)
(* limit and the next is sent minutes later, so the clock advances between *)
(* runs however often they are started.                                    *)
(***************************************************************************)
StoredIds == {1, 2}

\* The beat sends the settlement task once a period and a run ends within
\* its time limit: the runs of the task follow one another in one slot.
SettleSlots == {1}

\* the exchange settling a market: listMarketBook then reports each runner's
\* final status
exchange_settles(m, result) ==
    /\ now >= scheduled_start(m)
    /\ \A r \in RunnersOf(m) : book_status[r] = "ACTIVE"
    /\ book_status' = [r \in Runners |-> IF r \in RunnersOf(m) THEN result[r]
                                         ELSE book_status[r]]
    /\ UNCHANGED <<now, config, closing, runner_status, decisions, runs, rl_vars, gw_vars,
                   sn_vars, jb_vars, dc_vars, cl_vars, sc_vars, cat_vars, he_vars, bt_vars,
                   au_vars, late_vars>>

\* ClosingData.result of the market's row is set: the rows with a result are
\* the stored ones and the market's
result_captured(m) == closing.with_results > min_results

\* capture_results on a market the book reports settled: closing_data.result
\* and settled_at are written, nothing else
capture_results_from_book(m) ==
    /\ \A r \in RunnersOf(m) : book_status[r] # "ACTIVE"
    /\ ~result_captured(m)
    /\ closing' = [closing EXCEPT !.with_results = @ + 1]
    /\ UNCHANGED <<now, config, runner_status, decisions, runs, rl_vars, gw_vars, ing_vars>>

NextSettleLive ==
    \/ tick
    \/ \E m \in Markets : \E result \in [RunnersOf(m) -> ResultStatuses] :
          exchange_settles(m, result)
    \/ \E m \in Markets : capture_results_from_book(m)
    \/ \E s \in SettleSlots : settle_shadow_decisions_task(s)
    \/ \E s \in SettleSlots : settle_step(s)
    \/ \E s \in SettleSlots : run_commit(s)

SpecSettleLive ==
    /\ InitSettle
    /\ [][NextSettleLive]_vars
    /\ SF_vars(tick)
    /\ WF_vars(\E m \in Markets : capture_results_from_book(m))
    /\ WF_vars(\E s \in SettleSlots : settle_shadow_decisions_task(s))
    /\ WF_vars(\E s \in SettleSlots : settle_step(s))
    /\ WF_vars(\E s \in SettleSlots : run_commit(s))

\* C27: while the phase is PHASE2_SHADOW, a PENDING decision whose runner the
\* exchange has settled as WINNER, LOSER or REMOVED is eventually stored with
\* an outcome other than PENDING.
C27_SettledDecisionLeavesPending ==
    \A i \in StoredIds :
       (/\ decisions[i].outcome = "PENDING"
        /\ book_status[decisions[i].runner_id] \in ResultStatuses
        /\ get_current_phase = PHASE2_SHADOW)
          ~> (decisions[i].outcome \in {"WIN", "LOSE", "VOID"})

(***************************************************************************)
(* BetfairAuth under concurrent coroutines of one process.  A coroutine    *)
(* runs without interruption from one await to the next, so each action is *)
(* the code between two awaits.  auth is self._token, cache the token in   *)
(* Redis (self.redis is set), and the tokens are within their TTL.         *)
(***************************************************************************)
but_au == <<sh_vars, rl_vars, call, sn_vars, jb_vars, dc_vars, cl_vars, sc_vars,
            cat_vars, he_vars, bt_vars, bk_vars, late_vars>>

\* login: async with self._lock, then _get_cached_token up to its first
\* await; a token in memory is returned and the lock released at once
login_acquire(c) ==
    /\ coros[c].pc = "idle"
    /\ lock = 0
    /\ IF auth # 0
       THEN /\ coros' = [coros EXCEPT ![c] = [op |-> "login", pc |-> "done", token |-> auth]]
            /\ UNCHANGED lock
       ELSE /\ coros' = [coros EXCEPT ![c] = [op |-> "login", pc |-> "redis_get", token |-> 0]]
            /\ lock' = c
    /\ UNCHANGED <<auth, cache, exchange, but_au>>

\* login: redis.get answers; a stored token is put in memory and returned,
\* else the login request is sent
login_redis_get(c) ==
    /\ coros[c].op = "login"
    /\ coros[c].pc = "redis_get"
    /\ IF cache # 0
       THEN /\ auth' = cache
            /\ coros' = [coros EXCEPT ![c].pc = "done", ![c].token = cache]
            /\ lock' = 0
       ELSE /\ coros' = [coros EXCEPT ![c].pc = "post"]
            /\ UNCHANGED <<auth, lock>>
    /\ UNCHANGED <<cache, exchange, but_au>>

\* login: the exchange answers with a new token; _cache_token writes it to
\* memory and sends redis.set
login_post(c) ==
    /\ coros[c].op = "login"
    /\ coros[c].pc = "post"
    /\ exchange < MaxTokens
    /\ exchange' = exchange + 1
    /\ auth' = exchange + 1
    /\ coros' = [coros EXCEPT ![c].pc = "redis_set", ![c].token = exchange + 1]
    /\ UNCHANGED <<cache, lock, but_au>>

\* login: redis.set done; return token, leaving the lock
login_redis_set(c) ==
    /\ coros[c].op = "login"
    /\ coros[c].pc = "redis_set"
    /\ cache' = coros[c].token
    /\ coros' = [coros EXCEPT ![c].pc = "done"]
    /\ lock' = 0
    /\ UNCHANGED <<auth, exchange, but_au>>

\* logout: token = self._token or await self._get_cached_token()
logout_begin(c) ==
    /\ coros[c].pc = "idle"
    /\ coros' = [coros EXCEPT ![c] = [op |-> "logout",
                                      pc |-> IF auth # 0 THEN "post" ELSE "redis_get",
                                      token |-> auth]]
    /\ UNCHANGED <<auth, cache, exchange, lock, but_au>>

\* logout: redis.get answers inside _get_cached_token; a stored token is put
\* in memory; with none, logout returns
logout_redis_get(c) ==
    /\ coros[c].op = "logout"
    /\ coros[c].pc = "redis_get"
    /\ IF cache # 0
       THEN /\ auth' = cache
            /\ coros' = [coros EXCEPT ![c].pc = "post", ![c].token = cache]
       ELSE /\ coros' = [coros EXCEPT ![c].pc = "done"]
            /\ UNCHANGED auth
    /\ UNCHANGED <<cache, exchange, lock, but_au>>

\* logout: the logout request is over (or failed, which is only logged);
\* self._token = None and redis.delete is sent
logout_post(c) ==
    /\ coros[c].op = "logout"
    /\ coros[c].pc = "post"
    /\ auth' = logout_memory(auth)
    /\ coros' = [coros EXCEPT ![c].pc = "delete"]
    /\ UNCHANGED <<cache, exchange, lock, but_au>>

\* logout: redis.delete done
logout_delete(c) ==
    /\ coros[c].op = "logout"
    /\ coros[c].pc = "delete"
    /\ cache' = 0
    /\ coros' = [coros EXCEPT ![c].pc = "done"]
    /\ UNCHANGED <<auth, exchange, lock, but_au>>

\* the caller takes the result; the coroutine is free for its next call
auth_return(c) ==
    /\ coros[c].pc = "done"
    /\ coros' = [coros EXCEPT ![c] = IdleCoro]
    /\ UNCHANGED <<auth, cache, exchange, lock, but_au>>

InitAuth ==
    /\ now = 0
    /\ config = [enabled |-> TRUE, auto_activate_phase2 |-> TRUE,
                 live_trading_enabled |-> FALSE]
    /\ closing = StoredClosing
    /\ runner_status = [r \in Runners |-> "ACTIVE"]
    /\ decisions = <<>>
    /\ runs = [s \in Slots |-> IdleRun]
    /\ rl_idle
    /\ gw_idle
    /\ ing_idle

NextAuth ==
    \/ \E c \in Coros : login_acquire(c)
    \/ \E c \in Coros : login_redis_get(c)
    \/ \E c \in Coros : login_post(c)
    \/ \E c \in Coros : login_redis_set(c)
    \/ \E c \in Coros : logout_begin(c)
    \/ \E c \in Coros : logout_redis_get(c)
    \/ \E c \in Coros : logout_post(c)
    \/ \E c \in Coros : logout_delete(c)
    \/ \E c \in Coros : auth_return(c)

SpecAuth == InitAuth /\ [][NextAuth]_vars

\* C30: every step that changes the cached session token, in memory or in
\* the shared store, is taken by the coroutine that holds the authentication
\* lock.
C30_TokenWrittenUnderLock ==
    [][(auth' # auth \/ cache' # cache) =>
          \E c \in Coros : coros'[c] # coros[c] /\ lock = c]_vars

(***************************************************************************)
(* The snapshot task: _capture_snapshots_async around                      *)
(* SnapshotCaptureService.capture_snapshots, one run at a time.  The run   *)
(* commits its JobRun, reads the active markets, asks the exchange for the *)
(* books batch by batch, commits once after the last batch, and updates    *)
(* the JobRun in its finally block.  Every competition is enabled.  A      *)
(* snapshot is the pair of the run and the market.                         *)
(***************************************************************************)
MaxCaptureRuns == 2
CaptureBatchSize == 2
but_cp == <<sn_vars, jb_vars, dc_vars, cl_vars, sc_vars, cat_vars, he_vars, bt_vars,
            bk_vars, au_vars, sr_vars, mk_vars, rc_vars>>

CapMarketOrder == <<1, 2, 3>>
Books == [status : {"OPEN", "SUSPENDED", "CLOSED"}, in_play : BOOLEAN]

\* How a batch request can fail, by the exception capture_snapshots catches:
\* the API-level error TOO_MUCH_DATA (its text is the exchange's message),
\* HTTP 400 whose body names TOO_MUCH_DATA, HTTP 400 for stale market ids,
\* a timeout after the retries, no session token, and the soft time limit
\* raised inside the try.
BatchFailures ==
    {"TOO_MUCH_DATA", "HTTP_400_TOO_MUCH_DATA", "HTTP_400", "TIMEOUT", "INVALID_SESSION"}

\* the markers str(e) holds
error_str(failure) ==
    CASE failure = "TOO_MUCH_DATA" -> {}
      [] failure = "HTTP_400_TOO_MUCH_DATA" -> {"400", "TOO_MUCH_DATA"}
      [] failure = "HTTP_400" -> {"400"}
      [] OTHER -> {}

\* select(Market) where status == "OPEN", in_play == False, in id order
active_market_rows(rows) ==
    SelectSeq(CapMarketOrder,
              LAMBDA m : m \in DOMAIN rows /\ rows[m].status = "OPEN" /\ ~rows[m].in_play)

\* betfair_ids[i : i + max_markets_per_batch] for each i of the range
RECURSIVE batches_of(_)
batches_of(ids) ==
    IF ids = <<>> THEN <<>>
    ELSE LET n == Min(CaptureBatchSize, Len(ids))
         IN <<SubSeq(ids, 1, n)>> \o batches_of(SubSeq(ids, n + 1, Len(ids)))

_mark_market_status_kept(rows, market_id, status) == rows

\* market.status = status
_mark_market_status(rows, market_id, status) ==
    [rows EXCEPT ![market_id].status = status]

\* market.in_play = True
_mark_market_inplay(rows, market_id) ==
    [rows EXCEPT ![market_id].in_play = TRUE]

\* one pass of  for book in books
process_book(run, m, book) ==
    IF book.status # "OPEN"
    THEN [run EXCEPT !.stats.markets_suspended = @ + 1,
                     !.rows = _mark_market_status(@, m, book.status)]
    ELSE IF book.in_play
    THEN [run EXCEPT !.stats.markets_suspended = @ + 1,
                     !.rows = _mark_market_inplay(@, m)]
    ELSE [run EXCEPT !.stats.snapshots_stored = @ + 1,
                     !.adds = @ \cup {m}]

RECURSIVE process_books(_, _, _)
process_books(run, batch, books) ==
    IF batch = <<>> THEN run
    ELSE process_books(process_book(run, Head(batch), books[Head(batch)]), Tail(batch), books)

RECURSIVE close_markets(_, _)
close_markets(rows, batch) ==
    IF batch = <<>> THEN rows
    ELSE close_markets(_mark_market_status(rows, Head(batch), "CLOSED"), Tail(batch))

batch_failed_closing(run, batch, text) ==
    LET counted == [run EXCEPT !.stats.batches_failed = @ + 1]
    IN IF "400" \in text
       THEN [counted EXCEPT !.rows = close_markets(@, batch),
                            !.stats.markets_suspended = @ + Len(batch)]
       ELSE [counted EXCEPT !.stats.errors = @ + 1]

\* except Exception as e: the branches on str(e)
batch_failed(run, batch, text) ==
    LET counted == [run EXCEPT !.stats.batches_failed = @ + 1]
    IN IF "TOO_MUCH_DATA" \in text
       THEN [counted EXCEPT !.stats.errors = @ + 1]
       ELSE IF "400" \in text
       THEN [counted EXCEPT !.rows = close_markets(@, batch),
                            !.stats.markets_suspended = @ + Len(batch)]
       ELSE [counted EXCEPT !.stats.errors = @ + 1]

\* the task up to the first batch: JobRun committed as running, the active
\* markets read; with none the service returns its empty stats
capture_snapshots_task ==
    /\ cap.pc \in {"idle", "done"}
    /\ cap.run < MaxCaptureRuns
    /\ LET markets == active_market_rows(market_rows)
       IN cap' = [IdleCap EXCEPT !.run = cap.run + 1,
                                 !.job = "running",
                                 !.before = market_rows,
                                 !.rows = market_rows,
                                 !.batches = batches_of(markets),
                                 !.pc = IF markets = <<>> THEN "finally" ELSE "loop",
                                 !.returned = IF markets = <<>> THEN Some([kind |-> "stats", stats |-> NoStats])
                                              ELSE Null]
    /\ UNCHANGED <<market_rows, xbook, snap_rows, trade_vars, but_cp>>

\* one pass of the batch loop whose request is answered
capture_batch ==
    /\ cap.pc = "loop"
    /\ cap.batches # <<>>
    /\ LET batch == Head(cap.batches)
           asked == [cap EXCEPT !.batches = Tail(@),
                                !.requested = Append(@, batch),
                                !.read = @ \o [k \in DOMAIN batch |-> <<batch[k], xbook[batch[k]]>>]]
           done == process_books(asked, batch, xbook)
       IN cap' = [done EXCEPT !.stats.batches_processed = @ + 1]
    /\ UNCHANGED <<market_rows, xbook, snap_rows, trade_vars, but_cp>>

\* one pass of the batch loop whose request raises
capture_batch_fails(failure) ==
    /\ cap.pc = "loop"
    /\ cap.batches # <<>>
    /\ LET batch == Head(cap.batches)
           asked == [cap EXCEPT !.batches = Tail(@),
                                !.requested = Append(@, batch),
                                !.failures = Append(@, <<batch, failure>>)]
       IN cap' = batch_failed(asked, batch, error_str(failure))
    /\ UNCHANGED <<market_rows, xbook, snap_rows, trade_vars, but_cp>>

\* await self.session.commit(); return stats; job_status = "success"
capture_commit ==
    /\ cap.pc = "loop"
    /\ cap.batches = <<>>
    /\ market_rows' = cap.rows
    /\ snap_rows' = snap_rows \cup {<<cap.run, m>> : m \in cap.adds}
    /\ cap' = [cap EXCEPT !.pc = "finally", !.adds = {}, !.returned = Some([kind |-> "stats", stats |-> cap.stats])]
    /\ UNCHANGED <<xbook, trade_vars, but_cp>>

\* The soft time limit: SoftTimeLimitExceeded is raised by the signal
\* handler in whatever the main thread is executing.  While the event loop
\* waits (the coroutine suspended in an await) it leaves run_until_complete
\* and the coroutine is never resumed; inside the try of the batch loop it
\* is one more caught batch error; in the service outside that try it
\* reaches the task's  except Exception, whose stats is still {}.
LimitPlaces == {"event_loop", "batch_try", "service"}

\* what the task gives its caller: the service's stats, the task's own
\* stats = {} when the service raised, or the exception
returns(stats) == Some([kind |-> "stats", stats |-> stats])
returns_empty_dict == Some([kind |-> "empty_dict", stats |-> NoStats])
raises == Some([kind |-> "raised", stats |-> NoStats])

soft_time_limit_exceeded(place) ==
    /\ cap.pc = "loop"
    /\ cap.limit = Null
    /\ place = "batch_try" => cap.batches # <<>>
    /\ LET hit == [cap EXCEPT !.limit = Some([stats |-> cap.stats,
                                              requested |-> cap.requested])]
       IN cap' = CASE place = "event_loop" ->
                        [hit EXCEPT !.pc = "done", !.returned = raises]
                   [] place = "batch_try" ->
                        batch_failed([hit EXCEPT
                                        !.batches = Tail(@),
                                        !.requested = Append(@, Head(cap.batches)),
                                        !.failures = Append(@, <<Head(cap.batches),
                                                                 "SoftTimeLimitExceeded">>)],
                                     Head(cap.batches), error_str("SoftTimeLimitExceeded"))
                   [] place = "service" ->
                        [hit EXCEPT !.pc = "finally", !.job = "failing",
                                    !.returned = returns_empty_dict]
    /\ UNCHANGED <<market_rows, xbook, snap_rows, trade_vars, but_cp>>

\* finally: the JobRun is updated and the session committed, which also
\* commits what the session still holds
capture_finally ==
    /\ cap.pc = "finally"
    /\ market_rows' = cap.rows
    /\ snap_rows' = snap_rows \cup {<<cap.run, m>> : m \in cap.adds}
    /\ cap' = [cap EXCEPT !.pc = "done", !.adds = {},
                          !.job = IF cap.job = "failing" THEN "failed" ELSE "success"]
    /\ UNCHANGED <<xbook, trade_vars, but_cp>>

\* the exchange suspends, closes, reopens a market or turns it in-play
exchange_moves(m, book) ==
    /\ cap.pc \in {"idle", "done"}
    /\ xbook[m] # book
    /\ xbook' = [xbook EXCEPT ![m] = book]
    /\ UNCHANGED <<market_rows, cap, snap_rows, trade_vars, but_cp>>

InitCapture ==
    /\ now = 0
    /\ config = [enabled |-> TRUE, auto_activate_phase2 |-> TRUE,
                 live_trading_enabled |-> FALSE]
    /\ closing = StoredClosing
    /\ runner_status = [r \in Runners |-> "ACTIVE"]
    /\ decisions = <<>>
    /\ runs = [s \in Slots |-> IdleRun]
    /\ rl_idle
    /\ gw_idle
    /\ sn_idle /\ jb_idle /\ dc_idle /\ cl_idle /\ sc_idle
    /\ cat_idle /\ he_idle /\ bt_idle /\ bk_idle /\ au_idle /\ sr_idle /\ mk_idle /\ rc_idle
    /\ market_rows = [m \in CapMarkets |-> [status |-> "OPEN", in_play |-> FALSE]]
    /\ xbook \in [CapMarkets -> Books]
    /\ cap = IdleCap
    /\ snap_rows = {}

NextCapture ==
    \/ capture_snapshots_task
    \/ capture_batch
    \/ \E failure \in BatchFailures : capture_batch_fails(failure)
    \/ capture_commit
    \/ \E place \in LimitPlaces : soft_time_limit_exceeded(place)
    \/ capture_finally

SpecCapture == InitCapture /\ [][NextCapture]_vars

\* the run is over and no time limit cut it
capture_run_completed == cap.pc = "done" /\ cap.limit = Null

C34_SoftLimitStopsAndReturnsStats ==
    (cap.pc = "done" /\ cap.limit # Null) =>
        \A l \in cap.limit :
            /\ cap.requested = l.requested
            /\ cap.returned = returns(l.stats)

\* C35: a snapshot task run in which the session token could not be
\* obtained ends with its JobRun failed.
C35_AuthFailureFailsJobRun ==
    (/\ capture_run_completed
     /\ \E k \in DOMAIN cap.failures : cap.failures[k][2] = "INVALID_SESSION")
        => cap.job = "failed"

\* C33: in a discovery run the failure of the first batch request for
\* events does not end the run: the second batch is requested next.  (The
\* snapshot half of the claim is SnapshotRunContinues.)
C33_RunContinuesAfterFailedBatch ==
    [][(discovery.pc = "events_batch_1" /\ ~discovery.failed /\ discovery'.failed)
          => discovery'.pc = "events_batch_2"]_vars

\* a completed snapshot run has requested every batch of its active
\* markets, counted each failed one, and stored the open books of the others
SnapshotRunContinues ==
    capture_run_completed =>
        /\ cap.requested = batches_of(active_market_rows(cap.before))
        /\ cap.stats.batches_failed = Len(cap.failures)
        /\ \A k \in DOMAIN cap.read :
              cap.read[k][2] = [status |-> "OPEN", in_play |-> FALSE]
                 => <<cap.run, cap.read[k][1]>> \in snap_rows

(***************************************************************************)
(* The scoring task's loop: _score_markets_async over the rows of its      *)
(* query, one row per (market, profile of today).  A market has a profile  *)
(* row per time bucket; the query has no ORDER BY, so the rows come in any *)
(* order.  Only snapshot_count is followed of a profile, and of a score    *)
(* only the market it is for.                                              *)
(***************************************************************************)
but_sr == <<sn_vars, jb_vars, dc_vars, cl_vars, sc_vars, cat_vars, he_vars, bt_vars,
            bk_vars, au_vars, cp_vars, mk_vars, rc_vars>>

TimeBuckets == {"6-24h", "2-6h"}
SnapshotCounts == {4, 5}
ProfileRows == [market_id : ScoredMarkets, time_bucket : TimeBuckets,
                snapshot_count : SnapshotCounts]

\* uq_profile_market_date_bucket
unique_profiles(rows) ==
    \A p, q \in rows : (p.market_id = q.market_id /\ p.time_bucket = q.time_bucket) => p = q

\* select(Market, MarketProfileDaily) ... where Competition.enabled,
\* Market.status == "OPEN", profile_date == today
scoring_rows(db, markets) ==
    {p \in db.profiles : db.enabled[p.market_id] /\ markets[p.market_id].status = "OPEN"}

\* the orders a result set can come in
orderings(rows) ==
    {seq \in [1..Cardinality(rows) -> rows] :
        \A i, j \in DOMAIN seq : seq[i] = seq[j] => i = j}

\* the task up to the loop: result.all()
score_markets_task ==
    /\ score_run.pc \in {"idle", "done"}
    /\ \E rows \in orderings(scoring_rows(score_db, market_rows)) :
          score_run' = [IdleScoreRun EXCEPT !.pc = "loop", !.rows = rows]
    /\ UNCHANGED <<score_db, cp_vars, trade_vars, but_sr>>

\* one pass of  for market, profile in rows
score_row ==
    /\ score_run.pc = "loop"
    /\ score_run.rows # <<>>
    /\ LET profile == Head(score_run.rows)
           m == profile.market_id
       IN score_run' =
            IF m \in score_run.scored_markets
            THEN [score_run EXCEPT !.rows = Tail(@)]
            ELSE IF profile.snapshot_count < 5
            THEN [score_run EXCEPT !.rows = Tail(@), !.scored_markets = @ \cup {m}]
            ELSE [score_run EXCEPT !.rows = Tail(@), !.scored_markets = @ \cup {m},
                                   !.adds = @ \cup {m}]
    /\ UNCHANGED <<score_db, cp_vars, trade_vars, but_sr>>

\* await session.commit()
score_commit ==
    /\ score_run.pc = "loop"
    /\ score_run.rows = <<>>
    /\ score_db' = [score_db EXCEPT !.scores = score_run.adds]
    /\ score_run' = [score_run EXCEPT !.pc = "done"]
    /\ UNCHANGED <<cp_vars, trade_vars, but_sr>>

InitScoreRun ==
    /\ now = 0
    /\ config = [enabled |-> TRUE, auto_activate_phase2 |-> TRUE,
                 live_trading_enabled |-> FALSE]
    /\ closing = StoredClosing
    /\ runner_status = [r \in Runners |-> "ACTIVE"]
    /\ decisions = <<>>
    /\ runs = [s \in Slots |-> IdleRun]
    /\ rl_idle
    /\ gw_idle
    /\ sn_idle /\ jb_idle /\ dc_idle /\ cl_idle /\ sc_idle
    /\ cat_idle /\ he_idle /\ bt_idle /\ bk_idle /\ au_idle /\ mk_idle /\ rc_idle
    /\ \E status \in [ScoredMarkets -> {"OPEN", "CLOSED"}] :
          market_rows = [m \in CapMarkets |->
                            [status |-> IF m \in ScoredMarkets THEN status[m] ELSE "OPEN",
                             in_play |-> FALSE]]
    /\ xbook = [m \in CapMarkets |-> [status |-> "OPEN", in_play |-> FALSE]]
    /\ cap = IdleCap
    /\ snap_rows = {}
    /\ \E enabled \in [ScoredMarkets -> BOOLEAN], profiles \in SUBSET ProfileRows :
          /\ unique_profiles(profiles)
          /\ score_db = [enabled |-> enabled, profiles |-> profiles, scores |-> {}]
    /\ score_run = IdleScoreRun

NextScoreRun ==
    \/ score_markets_task
    \/ score_row
    \/ score_commit

SpecScoreRun == InitScoreRun /\ [][NextScoreRun]_vars

\* C36: after a scoring run, every OPEN market of an enabled competition
\* with a profile row for today of snapshot_count >= 5 has a Score row of
\* that run.
C36_EveryProfiledMarketScored ==
    score_run.pc = "done" =>
        \A m \in ScoredMarkets :
            (/\ market_rows[m].status = "OPEN"
             /\ score_db.enabled[m]
             /\ \E p \in score_db.profiles : p.market_id = m /\ p.snapshot_count >= 5)
                => m \in score_db.scores

(***************************************************************************)
(* The snapshot pipeline left running: snapshot runs period after period,  *)
(* discovery between them, the exchange moving its markets.                *)
(***************************************************************************)
OpenBook == [status |-> "OPEN", in_play |-> FALSE]

\* the exchange suspending, closing and reopening a market before the off
PreMatchBooks == {book \in Books : ~book.in_play}

\* the markets insert of _discover_markets for one listed market: a new row
\* is OPEN and not in play; on conflict only name and total_matched are set
discover_market_row(rows, m) ==
    IF m \in DOMAIN rows THEN rows ELSE rows @@ (m :> OpenBook)

RECURSIVE discover_market_rows(_, _)
discover_market_rows(rows, listed) ==
    IF listed = <<>> THEN rows
    ELSE discover_market_rows(discover_market_row(rows, Head(listed)), Tail(listed))

\* a discovery run between two snapshot runs, over the markets listed
discover_markets_run ==
    /\ cap.pc \in {"idle", "done"}
    /\ market_rows' = discover_market_rows(market_rows, CapMarketOrder)
    /\ UNCHANGED <<xbook, cap, snap_rows, trade_vars, but_cp>>

\* the next beat period: the run counter and the snapshots of the period
\* before are not followed further
capture_next_period ==
    /\ cap.pc = "done"
    /\ cap' = IdleCap
    /\ snap_rows' = {}
    /\ UNCHANGED <<market_rows, xbook, trade_vars, but_cp>>

InitCaptureLive ==
    /\ now = 0
    /\ config = [enabled |-> TRUE, auto_activate_phase2 |-> TRUE,
                 live_trading_enabled |-> FALSE]
    /\ closing = StoredClosing
    /\ runner_status = [r \in Runners |-> "ACTIVE"]
    /\ decisions = <<>>
    /\ runs = [s \in Slots |-> IdleRun]
    /\ rl_idle
    /\ gw_idle
    /\ sn_idle /\ jb_idle /\ dc_idle /\ cl_idle /\ sc_idle
    /\ cat_idle /\ he_idle /\ bt_idle /\ bk_idle /\ au_idle /\ sr_idle /\ mk_idle /\ rc_idle
    /\ market_rows = [m \in {1, 2} |-> OpenBook]
    /\ xbook = [m \in CapMarkets |-> OpenBook]
    /\ cap = IdleCap
    /\ snap_rows = {}

NextCaptureLive ==
    \/ capture_snapshots_task
    \/ capture_batch
    \/ capture_batch_fails("HTTP_400")
    \/ capture_commit
    \/ capture_finally
    \/ capture_next_period
    \/ discover_markets_run
    \/ \E m \in CapMarkets, book \in PreMatchBooks : exchange_moves(m, book)

\* the beat keeps starting runs, requests are answered in the end, and
\* discovery keeps running; the exchange owes nothing
SpecCaptureLive ==
    /\ InitCaptureLive
    /\ [][NextCaptureLive]_vars
    /\ WF_vars(capture_snapshots_task)
    /\ SF_vars(capture_batch)
    /\ WF_vars(capture_commit)
    /\ WF_vars(capture_finally)
    /\ WF_vars(capture_next_period)
    /\ SF_vars(discover_markets_run)

marked_by_snapshot_run(m) ==
    /\ m \in DOMAIN market_rows
    /\ market_rows[m].status \in {"SUSPENDED", "CLOSED"}

selected_for_snapshots(m) ==
    /\ cap.pc = "loop"
    /\ \E i \in DOMAIN cap.batches : \E k \in DOMAIN cap.batches[i] : cap.batches[i][k] = m

\* C39: a market a snapshot run marked SUSPENDED or CLOSED, which the
\* exchange then holds OPEN and not in play, is eventually among the markets
\* a snapshot run selects (or the exchange moves it away from OPEN again).
C39_ReopenedMarketSelectedAgain ==
    \A m \in CapMarkets :
        (marked_by_snapshot_run(m) /\ xbook[m] = OpenBook)
            ~> (selected_for_snapshots(m) \/ xbook[m] # OpenBook)

(***************************************************************************)
(* Discovery of markets and runners: _discover_markets over one market of  *)
(* a stored event, with one runner.  The exchange's listing changes        *)
(* between runs.  markets is keyed on betfair_id, runners on               *)
(* (betfair_id, market_id); a table is a sequence of at most one row.      *)
(***************************************************************************)
MaxDiscoveryRuns == 3
but_mk == <<sn_vars, jb_vars, dc_vars, cl_vars, sc_vars, cat_vars, he_vars, bt_vars,
            bk_vars, au_vars, cp_vars, sr_vars, rc_vars>>

\* list_market_catalogue builds each Runner without a status, so the status
\* of a listed runner is the dataclass default
Listings == [market_name : {"Match Odds", "Match Odds (ET)"}, total_matched : {0, 1},
             runner_name : {"Home", "Home FC"}, sort_priority : {1, 2},
             status : {"ACTIVE"}]

\* insert(Market) ... on_conflict_do_update(set_ = name, total_matched)
upsert_market(rows, m) ==
    IF rows = <<>>
    THEN <<[name |-> m.market_name, total_matched |-> m.total_matched, status |-> "OPEN"]>>
    ELSE <<[rows[1] EXCEPT !.name = m.market_name, !.total_matched = m.total_matched]>>

\* insert(Runner) ... on_conflict_do_nothing
upsert_runner(rows, r) ==
    IF rows = <<>>
    THEN <<[name |-> r.runner_name, sort_priority |-> r.sort_priority, status |-> "ACTIVE"]>>
    ELSE rows

\* _discover_markets: the markets' upserts, commit, the runners' upserts,
\* commit
_discover_markets ==
    /\ mk_db.runs < MaxDiscoveryRuns
    /\ mk_db' = [runs |-> mk_db.runs + 1,
                  markets |-> upsert_market(mk_db.markets, xcat),
                  runners |-> upsert_runner(mk_db.runners, xcat),
                  listed |-> xcat]
    /\ UNCHANGED <<xcat, cp_vars, sr_vars, trade_vars, but_mk>>

\* the exchange renames the market or the runner, matches money or
\* reorders the runner
exchange_relists(listing) ==
    /\ listing # xcat
    /\ xcat' = listing
    /\ UNCHANGED <<mk_db, cp_vars, sr_vars, trade_vars, but_mk>>

InitMarkets ==
    /\ now = 0
    /\ config = [enabled |-> TRUE, auto_activate_phase2 |-> TRUE,
                 live_trading_enabled |-> FALSE]
    /\ closing = StoredClosing
    /\ runner_status = [r \in Runners |-> "ACTIVE"]
    /\ decisions = <<>>
    /\ runs = [s \in Slots |-> IdleRun]
    /\ rl_idle
    /\ gw_idle
    /\ sn_idle /\ jb_idle /\ dc_idle /\ cl_idle /\ sc_idle
    /\ cat_idle /\ he_idle /\ bt_idle /\ bk_idle /\ au_idle /\ cp_idle /\ sr_idle /\ rc_idle
    /\ xcat \in Listings
    /\ mk_db = NothingStored

NextMarkets ==
    \/ _discover_markets
    \/ \E listing \in Listings : exchange_relists(listing)

SpecMarkets == InitMarkets /\ [][NextMarkets]_vars

\* C37: after a discovery run the stored market's name and total matched
\* and the stored runner's name, sort priority and status are the ones the
\* exchange returned in that run.
C37_UpsertOverwritesFields ==
    mk_db.runs > 0 =>
        /\ mk_db.markets[1].name = mk_db.listed.market_name
        /\ mk_db.markets[1].total_matched = mk_db.listed.total_matched
        /\ mk_db.runners[1].name = mk_db.listed.runner_name
        /\ mk_db.runners[1].sort_priority = mk_db.listed.sort_priority
        /\ mk_db.runners[1].status = mk_db.listed.status

(***************************************************************************)
(* Settlement capture: capture_results over the ClosingData rows that have *)
(* closing odds and whose event started between 2 h and 48 h ago.  The     *)
(* markets are numbered by scheduled_start, the newest highest.            *)
(***************************************************************************)
ResultsLimit == 2
ResultsBatchSize == 1
but_rc == <<sn_vars, jb_vars, dc_vars, cl_vars, sc_vars, cat_vars, he_vars, bt_vars,
            bk_vars, au_vars, cp_vars, sr_vars, mk_vars>>

NewestFirst == <<3, 2, 1>>

\* what the exchange can make of a live market: settled with a winner,
\* voided, or left live (a postponed event)
SettledBooks ==
    {[status |-> "CLOSED", runners |-> <<"WINNER", "LOSER">>],
     [status |-> "CLOSED", runners |-> <<"REMOVED", "REMOVED">>]}

\* where settled_at is null, order_by(scheduled_start.desc()), limit
unsettled_query(rows) ==
    LET open == SelectSeq(NewestFirst, LAMBDA m : rows[m].settled_at = Null)
    IN SubSeq(open, 1, Min(ResultsLimit, Len(open)))

RECURSIVE result_batches(_)
result_batches(ids) ==
    IF ids = <<>> THEN <<>>
    ELSE LET n == Min(ResultsBatchSize, Len(ids))
         IN <<SubSeq(ids, 1, n)>> \o result_batches(SubSeq(ids, n + 1, Len(ids)))

has_winner(book) == \E k \in DOMAIN book.runners : book.runners[k] = "WINNER"
all_removed(book) == \A k \in DOMAIN book.runners : book.runners[k] = "REMOVED"

\* the result a book gives: none unless CLOSED with a winner or all removed
book_result(m, book) ==
    IF book.status # "CLOSED" THEN {}
    ELSE IF has_winner(book) THEN {<<m, [void |-> FALSE]>>}
    ELSE IF all_removed(book) THEN {<<m, [void |-> TRUE]>>}
    ELSE {}

\* the query; with no records the run returns
capture_results_query ==
    /\ rc.pc = "idle"
    /\ LET records == unsettled_query(unsettled)
       IN rc' = [pc |-> IF records = <<>> THEN "idle" ELSE "batches",
                 records |-> records,
                 batches |-> result_batches(records),
                 market_results |-> {}]
    /\ UNCHANGED <<unsettled, rbook, trade_vars, but_rc>>

\* one batch answered by list_market_book
results_batch ==
    /\ rc.pc = "batches"
    /\ rc.batches # <<>>
    /\ LET batch == Head(rc.batches)
       IN rc' = [rc EXCEPT !.batches = Tail(@),
                           !.market_results =
                               @ \cup UNION {book_result(batch[k], rbook[batch[k]]) :
                                             k \in DOMAIN batch}]
    /\ UNCHANGED <<unsettled, rbook, trade_vars, but_rc>>

\* one batch whose request raises: api_errors += 1
results_batch_fails ==
    /\ rc.pc = "batches"
    /\ rc.batches # <<>>
    /\ rc' = [rc EXCEPT !.batches = Tail(@)]
    /\ UNCHANGED <<unsettled, rbook, trade_vars, but_rc>>

\* the update loop over the records and the commit
results_update ==
    /\ rc.pc = "batches"
    /\ rc.batches = <<>>
    /\ unsettled' =
           [m \in ResultMarkets |->
               IF /\ \E k \in DOMAIN rc.records : rc.records[k] = m
                  /\ \E res \in rc.market_results : res[1] = m
               THEN [settled_at |-> Some("now"),
                     result |-> Some((CHOOSE res \in rc.market_results : res[1] = m)[2])]
               ELSE unsettled[m]]
    /\ rc' = IdleResults
    /\ UNCHANGED <<rbook, trade_vars, but_rc>>

\* the exchange settles or voids a live market
exchange_closes(m, book) ==
    /\ rbook[m] = LiveBook
    /\ rbook' = [rbook EXCEPT ![m] = book]
    /\ UNCHANGED <<unsettled, rc, trade_vars, but_rc>>

InitResults ==
    /\ now = 0
    /\ config = [enabled |-> TRUE, auto_activate_phase2 |-> TRUE,
                 live_trading_enabled |-> FALSE]
    /\ closing = StoredClosing
    /\ runner_status = [r \in Runners |-> "ACTIVE"]
    /\ decisions = <<>>
    /\ runs = [s \in Slots |-> IdleRun]
    /\ rl_idle
    /\ gw_idle
    /\ sn_idle /\ jb_idle /\ dc_idle /\ cl_idle /\ sc_idle
    /\ cat_idle /\ he_idle /\ bt_idle /\ bk_idle /\ au_idle
    /\ cp_idle /\ sr_idle /\ mk_idle
    /\ unsettled = [m \in ResultMarkets |-> [settled_at |-> Null, result |-> Null]]
    /\ rbook = [m \in ResultMarkets |-> LiveBook]
    /\ rc = IdleResults

NextResults ==
    \/ capture_results_query
    \/ results_batch
    \/ results_batch_fails
    \/ results_update
    \/ \E m \in ResultMarkets, book \in SettledBooks : exchange_closes(m, book)

\* the answered batch holds market m
results_batch_of(m) ==
    /\ results_batch
    /\ \E k \in DOMAIN Head(rc.batches) : Head(rc.batches)[k] = m

\* the beat keeps starting runs and a request for a market that keeps being
\* asked is answered in the end; the exchange owes no settlement
SpecResults ==
    /\ InitResults
    /\ [][NextResults]_vars
    /\ WF_vars(capture_results_query)
    /\ \A m \in ResultMarkets : SF_vars(results_batch_of(m))
    /\ WF_vars(results_update)

\* C40: every row whose market the exchange reports CLOSED with a WINNER
\* runner eventually has settled_at set, whatever the other rows are.
C40_ClosedWithWinnerGetsSettled ==
    \A m \in ResultMarkets :
        (rbook[m].status = "CLOSED" /\ has_winner(rbook[m]))
            ~> (unsettled[m].settled_at # Null)
====
